---- MODULE Spec2Model ----
(***************************************************************************)
(* Payment lifecycle state machine, message queues and agents of the       *)
(* agent-economy demo: lib/store.ts (AgentStore), lib/buyer-agent.ts       *)
(* (BuyerAgent), the SellerAgent that pays through ZendFi and the          *)
(* AgentManager that polls the queues.                                     *)
(*                                                                         *)
(* Three specifications share the variables:                               *)
(*   StoreSpec  the AgentStore API called directly, the way                *)
(*              lib/state-machine-examples.ts calls it;                    *)
(*   Spec       the running system: manager, poll timer, both agents, the  *)
(*              payment provider, the network and the store behind them;   *)
(*   LiveSpec   the running system left alone, with the timers firing and  *)
(*              every pending call coming back.                            *)
(*                                                                         *)
(* Time is counted in days, money in 1/10000 dollar.  A log entry keeps    *)
(* agent_id, type and message; its random id and its timestamp are never   *)
(* read by the program and are left out.  The program only appends to the  *)
(* log, filters it by agent and clears it, so the log is kept as the bag   *)
(* of its entries: what was logged and how often, not in which order.      *)
(***************************************************************************)
EXTENDS Integers, Sequences, FiniteSets, Bags, TLC

\* ---------------------------------------------------------------------
\* Bounds of the model
\* ---------------------------------------------------------------------
\* the clock advances at most this many days
MaxTime == 1
\* StoreSpec: calls after which the store's log is full
MaxStoreLog == 4
\* Spec, LiveSpec: requests from outside (initialize, purchase, reset) and
\* redeliveries by the network, all together
MaxCalls == 3

\* ---------------------------------------------------------------------
\* Program constants
\* ---------------------------------------------------------------------
\* 24 * 60 * 60 * 1000 ms; the clock counts days
RefundWindow == 1
\* fixedPricing['gpt4-tokens'] = 0.01 dollars; money counts 1/10000 dollar
UnitPrice == 100

BuyerId == "buyer-agent-demo"
SellerId == "seller-agent-demo"

\* lib/types.ts, enum PaymentStatus
INITIATED == "initiated"
QUOTE_RECEIVED == "quote_received"
PAYMENT_SENT == "payment_sent"
DELIVERY_PENDING == "delivery_pending"
COMPLETED == "completed"
DISPUTED == "disputed"
REFUNDED == "refunded"

PaymentStatus ==
  {INITIATED, QUOTE_RECEIVED, PAYMENT_SENT, DELIVERY_PENDING, COMPLETED, DISPUTED, REFUNDED}

\* The argument SellerAgent.handlePayment passes where a PaymentStatus is
\* expected: the object {status: 'completed', delivery_confirmed_at}.  It is
\* strictly unequal to every enum value; this is how it prints in the error.
UpdatesObject == "[object Object]"

\* An argument that the caller left out
Undefined == "undefined"

NULL == "null"
\* a field that holds no timer handle, no agent object
NoTimer == 0
NoObject == 0

\* runStateManagementExamples is not running
Idle == <<"idle", 0>>

\* ids used by lib/state-machine-examples.ts
ExampleIds == {"example-payment-123", "invalid-payment-456"}

VARIABLES
  agents,           \* AgentStore.agents, in insertion order
  messages,         \* AgentStore.messages: agent id -> queue
  payments,         \* AgentStore.payments: payment id -> PaymentState
  logs,             \* AgentStore.logs (bag of entries)
  now,              \* the clock read by new Date()
  lastCall,         \* outcome of the most recent call that can fail or return
  apiKey,           \* whether process.env.ZENDFI_API_KEY is set
  clientInstance,   \* zendfi-client.ts: the cached SDK client, or NULL
  buyerAgent,       \* AgentManager.buyerAgent: the identity of the agent object, or NoObject
  sellerAgent,      \* AgentManager.sellerAgent
  messageProcessingInterval,  \* AgentManager.messageProcessingInterval: a timer id or NoTimer
  timers,           \* the interval timers that are running
  nextHandle,       \* next identity for a timer or an agent object
  processedMessages,\* BuyerAgent.processedMessages of the current buyer object
  initPending,      \* initializeAgents calls awaiting initializeAgentSessionKeys
  buyerPending,     \* handlers awaiting makePayment: buyer object and quote (bag)
  sellerPending,    \* suspended handlePayment calls: seller object, notification, await (bag)
  nextMsgId,        \* stands for crypto.randomUUID() in sendMessage
  nextPaymentId,    \* stands for the provider's fresh payment ids
  wire,             \* every message an agent has sent
  providerCalls,    \* makePayment calls made, by buyer object and quote message id (bag)
  paidFor,          \* payment id the provider returned -> the call it answered
  quotedFor,        \* quotes sent, by seller object and service_request message id (bag)
  deliveries,       \* deliverTokens calls, by seller object and notification message id (bag)
  calls,            \* requests from outside and redeliveries made so far
  pc                \* position of runStateManagementExamples: function and statement

storeVars == <<agents, messages, payments, logs>>
managerVars == <<buyerAgent, sellerAgent, messageProcessingInterval, timers, nextHandle>>
ghostVars == <<providerCalls, paidFor, quotedFor, deliveries>>
agentVars == <<processedMessages, initPending, buyerPending, sellerPending, nextMsgId,
               nextPaymentId, wire, ghostVars>>
envVars == <<apiKey, clientInstance, calls, pc>>

\* ---------------------------------------------------------------------
\* AgentStore (lib/store.ts)
\* ---------------------------------------------------------------------
validTransitions_extraEdge ==
  [s \in PaymentStatus |->
     CASE s = INITIATED -> <<QUOTE_RECEIVED, COMPLETED>>
       [] s = QUOTE_RECEIVED -> <<PAYMENT_SENT>>
       [] s = PAYMENT_SENT -> <<DELIVERY_PENDING, DISPUTED>>
       [] s = DELIVERY_PENDING -> <<COMPLETED, DISPUTED, REFUNDED>>
       [] s = COMPLETED -> <<>>
       [] s = DISPUTED -> <<REFUNDED, COMPLETED>>
       [] s = REFUNDED -> <<>>]

validTransitions_reopen ==
  [s \in PaymentStatus |->
     CASE s = INITIATED -> <<QUOTE_RECEIVED>>
       [] s = QUOTE_RECEIVED -> <<PAYMENT_SENT>>
       [] s = PAYMENT_SENT -> <<DELIVERY_PENDING, DISPUTED>>
       [] s = DELIVERY_PENDING -> <<COMPLETED, DISPUTED, REFUNDED>>
       [] s = COMPLETED -> <<DISPUTED>>
       [] s = DISPUTED -> <<REFUNDED, COMPLETED>>
       [] s = REFUNDED -> <<>>]

\* the table without the edge that completes a delivery
validTransitions_noCompletion ==
  [s \in PaymentStatus |->
     CASE s = INITIATED -> <<QUOTE_RECEIVED>>
       [] s = QUOTE_RECEIVED -> <<PAYMENT_SENT>>
       [] s = PAYMENT_SENT -> <<DELIVERY_PENDING, DISPUTED>>
       [] s = DELIVERY_PENDING -> <<DISPUTED, REFUNDED>>
       [] s = COMPLETED -> <<>>
       [] s = DISPUTED -> <<REFUNDED, COMPLETED>>
       [] s = REFUNDED -> <<>>]

\* a dispute can send the payment back to awaiting delivery
validTransitions_backEdge ==
  [s \in PaymentStatus |->
     CASE s = INITIATED -> <<QUOTE_RECEIVED>>
       [] s = QUOTE_RECEIVED -> <<PAYMENT_SENT>>
       [] s = PAYMENT_SENT -> <<DELIVERY_PENDING, DISPUTED>>
       [] s = DELIVERY_PENDING -> <<COMPLETED, DISPUTED, REFUNDED>>
       [] s = COMPLETED -> <<>>
       [] s = DISPUTED -> <<REFUNDED, COMPLETED, DELIVERY_PENDING>>
       [] s = REFUNDED -> <<>>]

validTransitions ==
  [s \in PaymentStatus |->
     CASE s = INITIATED -> <<QUOTE_RECEIVED>>
       [] s = QUOTE_RECEIVED -> <<PAYMENT_SENT>>
       [] s = PAYMENT_SENT -> <<DELIVERY_PENDING, DISPUTED>>
       [] s = DELIVERY_PENDING -> <<COMPLETED, DISPUTED, REFUNDED>>
       [] s = COMPLETED -> <<>>
       [] s = DISPUTED -> <<REFUNDED, COMPLETED>>
       [] s = REFUNDED -> <<>>]

\* Array.prototype.includes
includes(arr, x) == \E i \in 1..Len(arr) : arr[i] = x

isValidTransition(currentStatus, newStatus) ==
  includes(validTransitions[currentStatus], newStatus)

addLog(lg, agent_id, type, message) ==
  lg (+) SetToBag({[agent_id |-> agent_id, type |-> type, message |-> message]})

PaymentEvent(status, timestamp, actor, metadata) ==
  [status |-> status, timestamp |-> timestamp, actor |-> actor, metadata |-> metadata]

\* A PaymentState as its creator builds it
PaymentState(payment_id, status, buyer, seller, amount, events, refundable_until, t) ==
  [payment_id |-> payment_id, status |-> status,
   buyer_agent_id |-> buyer, seller_agent_id |-> seller,
   amount |-> amount, service_type |-> "gpt4-tokens",
   events |-> events, refundable_until |-> refundable_until,
   created_at |-> t, updated_at |-> t]

\* Map.set on the payments map
SetPayment(pays, payment_id, payment) ==
  [p \in DOMAIN pays \cup {payment_id} |-> IF p = payment_id THEN payment ELSE pays[p]]

\* the payment is stored as handed in, with no initial event
storePayment_noSeed(pays, lg, payment, t) ==
  [payments |-> SetPayment(pays, payment.payment_id, payment),
   logs |-> addLog(lg, payment.buyer_agent_id, "sent", <<"Payment", payment.status, ToString(payment.amount)>>)]

\* the events of a record that is already stored are kept in front of the new ones
storePayment_merge(pays, lg, payment, t) ==
  LET seeded ==
        IF Len(payment.events) = 0
          THEN [payment EXCEPT !.events =
                  Append(@, PaymentEvent(payment.status, t, payment.buyer_agent_id, Undefined))]
          ELSE payment
      merged ==
        IF payment.payment_id \in DOMAIN pays
          THEN [seeded EXCEPT !.events = pays[payment.payment_id].events \o @]
          ELSE seeded
  IN [payments |-> SetPayment(pays, payment.payment_id, merged),
      logs |-> addLog(lg, payment.buyer_agent_id, "sent", <<"Payment", seeded.status, ToString(seeded.amount)>>)]

storePayment(pays, lg, payment, t) ==
  LET seeded ==
        IF Len(payment.events) = 0
          THEN [payment EXCEPT !.events =
                  Append(@, PaymentEvent(payment.status, t, payment.buyer_agent_id, Undefined))]
          ELSE payment
  IN [payments |-> SetPayment(pays, payment.payment_id, seeded),
      logs |-> addLog(lg, payment.buyer_agent_id, "sent", <<"Payment", seeded.status, ToString(seeded.amount)>>)]

NoError == "ok"
NotFound == "not_found"
InvalidTransition == "invalid_transition"

\* updated_at is written as the epoch instead of the current time
updatePaymentStatus_epochStamp(pays, lg, payment_id, newStatus, actor, metadata, t) ==
  IF payment_id \notin DOMAIN pays
    THEN [payments |-> pays, logs |-> lg, error |-> NotFound,
          current |-> Undefined, allowed |-> <<>>]
  ELSE IF ~isValidTransition(pays[payment_id].status, newStatus)
    THEN [payments |-> pays, logs |-> lg, error |-> InvalidTransition,
          current |-> pays[payment_id].status,
          allowed |-> validTransitions[pays[payment_id].status]]
  ELSE [payments |->
          SetPayment(pays, payment_id,
            [pays[payment_id] EXCEPT !.status = newStatus,
                                     !.updated_at = 0,
                                     !.events = Append(@, PaymentEvent(newStatus, t, actor, metadata))]),
        logs |-> addLog(lg, actor, "message", <<"Payment", payment_id, newStatus>>),
        error |-> NoError, current |-> pays[payment_id].status, allowed |-> <<>>]

\* the error of a rejected transition lists only the first allowed status
updatePaymentStatus_firstAllowedOnly(pays, lg, payment_id, newStatus, actor, metadata, t) ==
  IF payment_id \notin DOMAIN pays
    THEN [payments |-> pays, logs |-> lg, error |-> NotFound,
          current |-> Undefined, allowed |-> <<>>]
  ELSE IF ~isValidTransition(pays[payment_id].status, newStatus)
    THEN [payments |-> pays, logs |-> lg, error |-> InvalidTransition,
          current |-> pays[payment_id].status,
          allowed |-> SubSeq(validTransitions[pays[payment_id].status], 1, 1)]
  ELSE [payments |->
          SetPayment(pays, payment_id,
            [pays[payment_id] EXCEPT !.status = newStatus,
                                     !.updated_at = t,
                                     !.events = Append(@, PaymentEvent(newStatus, t, actor, metadata))]),
        logs |-> addLog(lg, actor, "message", <<"Payment", payment_id, newStatus>>),
        error |-> NoError, current |-> pays[payment_id].status, allowed |-> <<>>]

\* a transition asked for an unknown payment leaves a log entry
updatePaymentStatus_logsMiss(pays, lg, payment_id, newStatus, actor, metadata, t) ==
  IF payment_id \notin DOMAIN pays
    THEN [payments |-> pays,
          logs |-> addLog(lg, actor, "message", <<"Payment", payment_id, NotFound>>),
          error |-> NotFound, current |-> Undefined, allowed |-> <<>>]
  ELSE IF ~isValidTransition(pays[payment_id].status, newStatus)
    THEN [payments |-> pays, logs |-> lg, error |-> InvalidTransition,
          current |-> pays[payment_id].status,
          allowed |-> validTransitions[pays[payment_id].status]]
  ELSE [payments |->
          SetPayment(pays, payment_id,
            [pays[payment_id] EXCEPT !.status = newStatus,
                                     !.updated_at = t,
                                     !.events = Append(@, PaymentEvent(newStatus, t, actor, metadata))]),
        logs |-> addLog(lg, actor, "message", <<"Payment", payment_id, newStatus>>),
        error |-> NoError, current |-> pays[payment_id].status, allowed |-> <<>>]

\* the legality check reads the status the payment had before its latest
\* transition, as a caller would that checked before another caller wrote
updatePaymentStatus_staleCheck(pays, lg, payment_id, newStatus, actor, metadata, t) ==
  IF payment_id \notin DOMAIN pays
    THEN [payments |-> pays, logs |-> lg, error |-> NotFound,
          current |-> Undefined, allowed |-> <<>>]
  ELSE LET evs == pays[payment_id].events
           seen == IF Len(evs) >= 2 THEN evs[Len(evs) - 1].status ELSE pays[payment_id].status
       IN IF ~isValidTransition(seen, newStatus)
            THEN [payments |-> pays, logs |-> lg, error |-> InvalidTransition,
                  current |-> seen, allowed |-> validTransitions[seen]]
            ELSE [payments |->
                    SetPayment(pays, payment_id,
                      [pays[payment_id] EXCEPT !.status = newStatus,
                                               !.updated_at = t,
                                               !.events = Append(@, PaymentEvent(newStatus, t, actor, metadata))]),
                  logs |-> addLog(lg, actor, "message", <<"Payment", payment_id, newStatus>>),
                  error |-> NoError, current |-> seen, allowed |-> <<>>]

\* the status is written, the event is not recorded
updatePaymentStatus_noEvent(pays, lg, payment_id, newStatus, actor, metadata, t) ==
  IF payment_id \notin DOMAIN pays
    THEN [payments |-> pays, logs |-> lg, error |-> NotFound,
          current |-> Undefined, allowed |-> <<>>]
  ELSE IF ~isValidTransition(pays[payment_id].status, newStatus)
    THEN [payments |-> pays, logs |-> lg, error |-> InvalidTransition,
          current |-> pays[payment_id].status,
          allowed |-> validTransitions[pays[payment_id].status]]
  ELSE [payments |->
          SetPayment(pays, payment_id,
            [pays[payment_id] EXCEPT !.status = newStatus, !.updated_at = t]),
        logs |-> addLog(lg, actor, "message", <<"Payment", payment_id, newStatus>>),
        error |-> NoError, current |-> pays[payment_id].status, allowed |-> <<>>]

\* the metadata argument is not recorded in the event
updatePaymentStatus_noMetadata(pays, lg, payment_id, newStatus, actor, metadata, t) ==
  IF payment_id \notin DOMAIN pays
    THEN [payments |-> pays, logs |-> lg, error |-> NotFound,
          current |-> Undefined, allowed |-> <<>>]
  ELSE IF ~isValidTransition(pays[payment_id].status, newStatus)
    THEN [payments |-> pays, logs |-> lg, error |-> InvalidTransition,
          current |-> pays[payment_id].status,
          allowed |-> validTransitions[pays[payment_id].status]]
  ELSE [payments |->
          SetPayment(pays, payment_id,
            [pays[payment_id] EXCEPT
               !.status = newStatus,
               !.updated_at = t,
               !.events = Append(@, PaymentEvent(newStatus, t, actor, Undefined))]),
        logs |-> addLog(lg, actor, "message", <<"Payment", payment_id, newStatus>>),
        error |-> NoError, current |-> pays[payment_id].status, allowed |-> <<>>]

\* the history is overwritten by the new event instead of extended
updatePaymentStatus_replaceEvents(pays, lg, payment_id, newStatus, actor, metadata, t) ==
  IF payment_id \notin DOMAIN pays
    THEN [payments |-> pays, logs |-> lg, error |-> NotFound,
          current |-> Undefined, allowed |-> <<>>]
  ELSE IF ~isValidTransition(pays[payment_id].status, newStatus)
    THEN [payments |-> pays, logs |-> lg, error |-> InvalidTransition,
          current |-> pays[payment_id].status,
          allowed |-> validTransitions[pays[payment_id].status]]
  ELSE [payments |->
          SetPayment(pays, payment_id,
            [pays[payment_id] EXCEPT
               !.status = newStatus,
               !.updated_at = t,
               !.events = <<PaymentEvent(newStatus, t, actor, metadata)>>]),
        logs |-> addLog(lg, actor, "message", <<"Payment", payment_id, newStatus>>),
        error |-> NoError, current |-> pays[payment_id].status, allowed |-> <<>>]

\* updatePaymentStatus: the store after the call, and the error it throws
\* the event appended carries the status the payment is leaving
updatePaymentStatus_staleEvent(pays, lg, payment_id, newStatus, actor, metadata, t) ==
  IF payment_id \notin DOMAIN pays
    THEN [payments |-> pays, logs |-> lg, error |-> NotFound,
          current |-> Undefined, allowed |-> <<>>]
  ELSE IF ~isValidTransition(pays[payment_id].status, newStatus)
    THEN [payments |-> pays, logs |-> lg, error |-> InvalidTransition,
          current |-> pays[payment_id].status,
          allowed |-> validTransitions[pays[payment_id].status]]
  ELSE [payments |->
          SetPayment(pays, payment_id,
            [pays[payment_id] EXCEPT
               !.status = newStatus,
               !.updated_at = t,
               !.events = Append(@, PaymentEvent(pays[payment_id].status, t, actor, metadata))]),
        logs |-> addLog(lg, actor, "message", <<"Payment", payment_id, newStatus>>),
        error |-> NoError, current |-> pays[payment_id].status, allowed |-> <<>>]

updatePaymentStatus(pays, lg, payment_id, newStatus, actor, metadata, t) ==
  IF payment_id \notin DOMAIN pays
    THEN [payments |-> pays, logs |-> lg, error |-> NotFound,
          current |-> Undefined, allowed |-> <<>>]
  ELSE IF ~isValidTransition(pays[payment_id].status, newStatus)
    THEN [payments |-> pays, logs |-> lg, error |-> InvalidTransition,
          current |-> pays[payment_id].status,
          allowed |-> validTransitions[pays[payment_id].status]]
  ELSE [payments |->
          SetPayment(pays, payment_id,
            [pays[payment_id] EXCEPT
               !.status = newStatus,
               !.updated_at = t,
               !.events = Append(@, PaymentEvent(newStatus, t, actor, metadata))]),
        logs |-> addLog(lg, actor, "message", <<"Payment", payment_id, newStatus>>),
        error |-> NoError, current |-> pays[payment_id].status, allowed |-> <<>>]

getPaymentEvents(pays, payment_id) ==
  IF payment_id \in DOMAIN pays THEN pays[payment_id].events ELSE <<>>

\* the end of the refund window is counted as inside it
canRefundPayment_inclusive(pays, payment_id, t) ==
  IF payment_id \notin DOMAIN pays THEN FALSE
  ELSE pays[payment_id].status = DELIVERY_PENDING /\ t <= pays[payment_id].refundable_until

canRefundPayment(pays, payment_id, t) ==
  IF payment_id \notin DOMAIN pays THEN FALSE
  ELSE pays[payment_id].status = DELIVERY_PENDING /\ t < pays[payment_id].refundable_until

\* ---------------------------------------------------------------------
\* AgentStore: registry and message queues (lib/store.ts)
\* ---------------------------------------------------------------------
AgentProfile(agent_id, agent_name, services, session_wallet) ==
  [agent_id |-> agent_id, agent_name |-> agent_name, services |-> services,
   session_wallet |-> session_wallet, is_online |-> TRUE]

IndexOfAgent(ags, agent_id) ==
  IF \E i \in 1..Len(ags) : ags[i].agent_id = agent_id
    THEN CHOOSE i \in 1..Len(ags) : ags[i].agent_id = agent_id
    ELSE 0

\* Map.set keeps the position of a key that is already present
registerAgent(ags, lg, profile) ==
  LET i == IndexOfAgent(ags, profile.agent_id)
  IN [agents |-> IF i = 0 THEN Append(ags, profile) ELSE [ags EXCEPT ![i] = profile],
      logs |-> addLog(lg, profile.agent_id, "message", <<"Agent registered", profile.agent_name>>)]

\* the profile in a one-element sequence, or the empty sequence for undefined
getAgent(ags, agent_id) ==
  IF IndexOfAgent(ags, agent_id) = 0 THEN <<>> ELSE <<ags[IndexOfAgent(ags, agent_id)]>>

listAgents(ags) == ags

getMessages(msgs, agent_id) ==
  IF agent_id \in DOMAIN msgs THEN msgs[agent_id] ELSE <<>>

SetQueue(msgs, agent_id, q) ==
  [a \in DOMAIN msgs \cup {agent_id} |-> IF a = agent_id THEN q ELSE msgs[a]]

storeMessage(msgs, lg, message) ==
  [messages |-> SetQueue(msgs, message.to_agent_id,
                         Append(getMessages(msgs, message.to_agent_id), message)),
   logs |-> addLog(lg, message.from_agent_id, "sent", <<"Message sent", message.type>>)]

\* the queue is left as it is
clearMessages_keep(msgs, agent_id) == SetQueue(msgs, agent_id, getMessages(msgs, agent_id))

clearMessages(msgs, agent_id) == SetQueue(msgs, agent_id, <<>>)

\* ---------------------------------------------------------------------
\* Messages (lib/types.ts, AgentMessageLite); payload fields flattened
\* ---------------------------------------------------------------------
NoPayment == "none"

Message(message_id, type, from, to, quantity, price, payment_id) ==
  [message_id |-> message_id, type |-> type, from_agent_id |-> from, to_agent_id |-> to,
   quantity |-> quantity, price |-> price, payment_id |-> payment_id]

\* BuyerAgent.sendMessage / SellerAgent.sendMessage: the store, the id counter
\* and the wire after sending
sendMessage(st, type, from, to, quantity, price, payment_id) ==
  LET m == Message(st.nextMsgId, type, from, to, quantity, price, payment_id)
      r == storeMessage(st.messages, st.logs, m)
  IN [st EXCEPT !.messages = r.messages, !.logs = r.logs,
                !.nextMsgId = @ + 1, !.wire = @ \cup {m}]

\* ---------------------------------------------------------------------
\* The store called directly (lib/state-machine-examples.ts)
\* ---------------------------------------------------------------------
\* actor and metadata of a call, by the status asked for, as
\* validStateTransitionsExample passes them; invalidStateTransitionExample
\* and the seller's call with an updates object pass no metadata
ExampleActor(newStatus) ==
  IF newStatus = UpdatesObject THEN Undefined
  ELSE IF newStatus = PAYMENT_SENT THEN "buyer-1" ELSE "seller-1"

ExampleMetadata(newStatus) ==
  CASE newStatus = QUOTE_RECEIVED -> "quote_amount"
    [] newStatus = PAYMENT_SENT -> "tx_signature"
    [] newStatus = DELIVERY_PENDING -> "delivery_eta"
    [] newStatus = COMPLETED -> "delivered_at"
    [] OTHER -> Undefined

NoCall == [op |-> "none"]

\* new AgentStore(), new AgentManager(), no client yet
EmptyInit ==
  /\ agents = <<>>
  /\ messages = [a \in {} |-> <<>>]
  /\ payments = [p \in {} |-> 0]
  /\ logs = EmptyBag
  /\ now = 0
  /\ lastCall = NoCall
  /\ clientInstance = NULL
  /\ buyerAgent = NoObject
  /\ sellerAgent = NoObject
  /\ messageProcessingInterval = NoTimer
  /\ timers = {}
  /\ nextHandle = 1
  /\ processedMessages = {}
  /\ initPending = 0
  /\ buyerPending = EmptyBag
  /\ sellerPending = EmptyBag
  /\ nextMsgId = 1
  /\ nextPaymentId = 1
  /\ wire = {}
  /\ providerCalls = EmptyBag
  /\ paidFor = [p \in {} |-> 0]
  /\ quotedFor = EmptyBag
  /\ deliveries = EmptyBag
  /\ calls = 0
  /\ pc = Idle

StoreInit ==
  /\ EmptyInit
  /\ apiKey = TRUE

\* new Date() never runs backwards
AdvanceClock ==
  /\ now < MaxTime
  /\ now' = now + 1
  /\ UNCHANGED <<storeVars, lastCall, managerVars, agentVars, envVars>>

\* createPaymentExample / invalidStateTransitionExample: a payment with no
\* events, and BuyerAgent.handleQuote's shape: the first event pre-populated
StorePaymentCall(payment_id, status, prepopulated) ==
  /\ BagCardinality(logs) < MaxStoreLog
  /\ LET evs == IF prepopulated
                  THEN <<PaymentEvent(status, now, "buyer-1", "quantity")>>
                  ELSE <<>>
         payment == PaymentState(payment_id, status, "buyer-1", "seller-1", 500,
                                 evs, now + RefundWindow, now)
         r == storePayment(payments, logs, payment, now)
     IN /\ payments' = r.payments
        /\ logs' = r.logs
        /\ lastCall' = [op |-> "storePayment"]
  /\ UNCHANGED <<agents, messages, now, managerVars, agentVars, envVars>>

UpdatePaymentStatusCall(payment_id, newStatus, actor, metadata) ==
  /\ BagCardinality(logs) < MaxStoreLog
  /\ LET r == updatePaymentStatus(payments, logs, payment_id, newStatus, actor, metadata, now)
     IN /\ payments' = r.payments
        /\ logs' = r.logs
        /\ lastCall' = [op |-> "updatePaymentStatus", error |-> r.error,
                        current |-> r.current, requested |-> newStatus,
                        allowed |-> r.allowed]
  /\ UNCHANGED <<agents, messages, now, managerVars, agentVars, envVars>>

CanRefundPaymentCall(payment_id) ==
  /\ lastCall' = [op |-> "canRefundPayment", payment_id |-> payment_id,
                  result |-> canRefundPayment(payments, payment_id, now)]
  /\ UNCHANGED <<storeVars, now, managerVars, agentVars, envVars>>

RECURSIVE Reverse(_)
Reverse(seq) == IF seq = <<>> THEN <<>> ELSE Append(Reverse(Tail(seq)), Head(seq))

\* the history is reversed in place before it is returned
GetPaymentEventsCall_reverse(payment_id) ==
  /\ lastCall' = [op |-> "getPaymentEvents",
                  result |-> Reverse(getPaymentEvents(payments, payment_id))]
  /\ payments' = [p \in DOMAIN payments |->
                    IF p = payment_id THEN [payments[p] EXCEPT !.events = Reverse(@)]
                    ELSE payments[p]]
  /\ UNCHANGED <<agents, messages, logs, now, managerVars, agentVars, envVars>>

GetPaymentEventsCall(payment_id) ==
  /\ lastCall' = [op |-> "getPaymentEvents",
                  result |-> getPaymentEvents(payments, payment_id)]
  /\ UNCHANGED <<storeVars, now, managerVars, agentVars, envVars>>

\* getPayment returns the stored record, or undefined
GetPaymentCall(payment_id) ==
  /\ lastCall' = [op |-> "getPayment",
                  result |-> IF payment_id \in DOMAIN payments
                               THEN <<payments[payment_id]>> ELSE <<>>]
  /\ UNCHANGED <<storeVars, now, managerVars, agentVars, envVars>>

StoreNext ==
  \/ AdvanceClock
  \/ \E p \in ExampleIds : StorePaymentCall(p, INITIATED, FALSE)
  \/ \E p \in ExampleIds : StorePaymentCall(p, PAYMENT_SENT, TRUE)
  \/ \E p \in ExampleIds, s \in PaymentStatus \cup {UpdatesObject} :
       UpdatePaymentStatusCall(p, s, ExampleActor(s), ExampleMetadata(s))
  \/ \E p \in ExampleIds : CanRefundPaymentCall(p)
  \/ \E p \in ExampleIds : GetPaymentEventsCall(p)
  \/ \E p \in ExampleIds : GetPaymentCall(p)

vars == <<storeVars, now, lastCall, managerVars, agentVars, envVars>>

StoreSpec == StoreInit /\ [][StoreNext]_vars

\* ---------------------------------------------------------------------
\* runStateManagementExamples (lib/state-machine-examples.ts): the program
\* that drives the store through the documented life of a payment.  One
\* action per example function; pc holds the function and the statement in
\* it that runs next.  The clock may advance between any two statements.
\* ---------------------------------------------------------------------
ExamplePaymentId == "example-payment-123"
InvalidPaymentId == "invalid-payment-456"

\* the statuses validStateTransitionsExample asks for, in order
ExampleTransitions == <<QUOTE_RECEIVED, PAYMENT_SENT, DELIVERY_PENDING, COMPLETED>>

ExampleUnchanged == UNCHANGED <<agents, messages, now, managerVars, agentVars,
                                apiKey, clientInstance, calls>>

runStateManagementExamples ==
  /\ pc = Idle
  /\ calls < MaxCalls
  /\ calls' = calls + 1
  /\ pc' = <<"createPaymentExample", 1>>
  /\ UNCHANGED <<storeVars, now, lastCall, managerVars, agentVars, apiKey, clientInstance>>

createPaymentExample ==
  /\ pc = <<"createPaymentExample", 1>>
  /\ LET payment == PaymentState(ExamplePaymentId, INITIATED, "buyer-1", "seller-1", 500,
                                 <<>>, now + RefundWindow, now)
         r == storePayment(payments, logs, payment, now)
     IN /\ payments' = r.payments
        /\ logs' = r.logs
        /\ lastCall' = [op |-> "storePayment"]
  /\ pc' = <<"validStateTransitionsExample", 1>>
  /\ ExampleUnchanged

\* one updatePaymentStatus of the try block; a throw leaves the block
validStateTransitionsExample ==
  /\ pc[1] = "validStateTransitionsExample"
  /\ LET s == ExampleTransitions[pc[2]]
         r == updatePaymentStatus(payments, logs, ExamplePaymentId, s,
                                  ExampleActor(s), ExampleMetadata(s), now)
     IN /\ payments' = r.payments
        /\ logs' = r.logs
        /\ lastCall' = [op |-> "updatePaymentStatus", error |-> r.error,
                        current |-> r.current, requested |-> s, allowed |-> r.allowed]
        /\ pc' = IF r.error = NoError /\ pc[2] < Len(ExampleTransitions)
                   THEN <<"validStateTransitionsExample", pc[2] + 1>>
                   ELSE <<"invalidStateTransitionExample", 1>>
  /\ ExampleUnchanged

\* statement 1 stores the second payment, statement 2 asks for INITIATED -> COMPLETED
invalidStateTransitionExample ==
  /\ pc[1] = "invalidStateTransitionExample"
  /\ IF pc[2] = 1
       THEN LET payment == PaymentState(InvalidPaymentId, INITIATED, "buyer-1", "seller-1", 500,
                                        <<>>, now + RefundWindow, now)
                r == storePayment(payments, logs, payment, now)
            IN /\ payments' = r.payments
               /\ logs' = r.logs
               /\ lastCall' = [op |-> "storePayment"]
               /\ pc' = <<"invalidStateTransitionExample", 2>>
       ELSE LET r == updatePaymentStatus(payments, logs, InvalidPaymentId, COMPLETED,
                                         "seller-1", Undefined, now)
            IN /\ payments' = r.payments
               /\ logs' = r.logs
               /\ lastCall' = [op |-> "updatePaymentStatus", error |-> r.error,
                               current |-> r.current, requested |-> COMPLETED,
                               allowed |-> r.allowed]
               /\ pc' = <<"paymentEventHistoryExample", 1>>
  /\ ExampleUnchanged

paymentEventHistoryExample ==
  /\ pc = <<"paymentEventHistoryExample", 1>>
  /\ lastCall' = [op |-> "getPaymentEvents",
                  result |-> getPaymentEvents(payments, ExamplePaymentId)]
  /\ pc' = <<"checkRefundEligibilityExample", 1>>
  /\ UNCHANGED storeVars
  /\ ExampleUnchanged

checkRefundEligibilityExample ==
  /\ pc = <<"checkRefundEligibilityExample", 1>>
  /\ lastCall' = [op |-> "canRefundPayment", payment_id |-> ExamplePaymentId,
                  result |-> canRefundPayment(payments, ExamplePaymentId, now)]
  /\ pc' = <<"crashRecoveryExample", 1>>
  /\ UNCHANGED storeVars
  /\ ExampleUnchanged

\* idempotencyExample, which runs before it, works on a set of its own
crashRecoveryExample ==
  /\ pc = <<"crashRecoveryExample", 1>>
  /\ lastCall' = [op |-> "getPayment",
                  result |-> IF ExamplePaymentId \in DOMAIN payments
                               THEN <<payments[ExamplePaymentId]>> ELSE <<>>]
  /\ pc' = Idle
  /\ UNCHANGED storeVars
  /\ ExampleUnchanged

ExampleNext ==
  \/ AdvanceClock
  \/ runStateManagementExamples
  \/ createPaymentExample
  \/ validStateTransitionsExample
  \/ invalidStateTransitionExample
  \/ paymentEventHistoryExample
  \/ checkRefundEligibilityExample
  \/ crashRecoveryExample

ExampleSpec == StoreInit /\ [][ExampleNext]_vars

\* ---------------------------------------------------------------------
\* The state a handler works on, and its commit
\* ---------------------------------------------------------------------
Cur ==
  [messages |-> messages, payments |-> payments, logs |-> logs,
   processedMessages |-> processedMessages,
   buyerPending |-> buyerPending, sellerPending |-> sellerPending,
   nextMsgId |-> nextMsgId, wire |-> wire,
   providerCalls |-> providerCalls, quotedFor |-> quotedFor, deliveries |-> deliveries]

Commit(st) ==
  /\ messages' = st.messages
  /\ payments' = st.payments
  /\ logs' = st.logs
  /\ processedMessages' = st.processedMessages
  /\ buyerPending' = st.buyerPending
  /\ sellerPending' = st.sellerPending
  /\ nextMsgId' = st.nextMsgId
  /\ wire' = st.wire
  /\ providerCalls' = st.providerCalls
  /\ quotedFor' = st.quotedFor
  /\ deliveries' = st.deliveries

Log(st, agent_id, type, message) == [st EXCEPT !.logs = addLog(@, agent_id, type, message)]

\* ---------------------------------------------------------------------
\* The life of payments that are stored once and from then on changed only
\* by updatePaymentStatus, followed to its end: the calls are those of
\* StoreSpec, made for as long as a caller cares to make them.
\* ---------------------------------------------------------------------
\* storePayment for an id the store does not hold yet
StorePaymentOnce(payment_id, status, prepopulated) ==
  /\ payment_id \notin DOMAIN payments
  /\ LET evs == IF prepopulated
                  THEN <<PaymentEvent(status, now, "buyer-1", "quantity")>>
                  ELSE <<>>
         payment == PaymentState(payment_id, status, "buyer-1", "seller-1", 500,
                                 evs, now + RefundWindow, now)
         r == storePayment(payments, logs, payment, now)
     IN /\ payments' = r.payments
        /\ logs' = r.logs
        /\ lastCall' = [op |-> "storePayment"]
  /\ UNCHANGED <<agents, messages, now, managerVars, agentVars, envVars>>

\* updatePaymentStatus on a stored payment
TransitionCall(payment_id, newStatus) ==
  /\ payment_id \in DOMAIN payments
  /\ LET r == updatePaymentStatus(payments, logs, payment_id, newStatus,
                                  ExampleActor(newStatus), ExampleMetadata(newStatus), now)
     IN /\ payments' = r.payments
        /\ logs' = r.logs
        /\ lastCall' = [op |-> "updatePaymentStatus", error |-> r.error,
                        current |-> r.current, requested |-> newStatus,
                        allowed |-> r.allowed]
  /\ UNCHANGED <<agents, messages, now, managerVars, agentVars, envVars>>

LifecycleNext ==
  \/ AdvanceClock
  \/ StorePaymentOnce(ExamplePaymentId, INITIATED, FALSE)
  \/ StorePaymentOnce(ExamplePaymentId, PAYMENT_SENT, TRUE)
  \/ \E s \in PaymentStatus : TransitionCall(ExamplePaymentId, s)

LifecycleSpec == StoreInit /\ [][LifecycleNext]_vars

\* ---------------------------------------------------------------------
\* BuyerAgent (lib/buyer-agent.ts)
\* ---------------------------------------------------------------------
\* handleQuote up to the await of zendfi.sessionKeys.makePayment
handleQuote(st, m) ==
  LET s1 == Log(Log(st, BuyerId, "message", <<"Quote received", ToString(m.price), ToString(m.quantity)>>),
                BuyerId, "message", <<"Executing payment via ZendFi">>)
  IN IF getAgent(agents, m.from_agent_id) = <<>>
       THEN Log(s1, BuyerId, "message", <<"Payment failed", "Seller agent not found">>)
       ELSE [s1 EXCEPT !.buyerPending = @ (+) SetToBag({[buyer |-> buyerAgent, msg |-> m]}),
                       !.providerCalls =
                          @ (+) SetToBag({[buyer |-> buyerAgent, message_id |-> m.message_id]})]

handleDelivery(st, m) ==
  Log(st, BuyerId, "message", <<"Tokens delivered", m.payment_id>>)

BuyerHandleMessage_noGuard(st, m) ==
  LET s1 == Log([st EXCEPT !.processedMessages = @ \cup {m.message_id}],
                BuyerId, "received", <<"Received", m.type>>)
  IN CASE m.type = "quote" -> handleQuote(s1, m)
       [] m.type = "delivery_confirmation" -> handleDelivery(s1, m)
       [] OTHER -> s1

\* getZendFiClient throws when no client is cached and the API key is not set
getZendFiClientThrows == clientInstance = NULL /\ ~apiKey

\* what handleQuote throws to handleMessage: the getZendFiClient call on its
\* first line is outside its own try block
DispatchThrows(m) == m.type = "quote" /\ getZendFiClientThrows

\* the log entry of handleMessage's catch block
ErrorHandling(m) ==
  [agent_id |-> BuyerId, type |-> "message",
   message |-> <<"Error handling", m.type, ToString(m.message_id), "ZENDFI_API_KEY is not set">>]

\* the catch block logs and rethrows, and leaves the id marked as processed
BuyerHandleMessage_keepOnError(st, m) ==
  IF m.message_id \in st.processedMessages
    THEN Log(st, BuyerId, "message", <<"Ignoring duplicate message", ToString(m.message_id)>>)
    ELSE LET s1 == Log([st EXCEPT !.processedMessages = @ \cup {m.message_id}],
                       BuyerId, "received", <<"Received", m.type>>)
         IN IF DispatchThrows(m)
              THEN [s1 EXCEPT !.logs = @ (+) SetToBag({ErrorHandling(m)})]
              ELSE CASE m.type = "quote" -> handleQuote(s1, m)
                     [] m.type = "delivery_confirmation" -> handleDelivery(s1, m)
                     [] OTHER -> s1

\* BuyerAgent.handleMessage up to its first suspension, or through its catch
\* block when the dispatch throws
BuyerHandleMessage(st, m) ==
  IF m.message_id \in st.processedMessages
    THEN Log(st, BuyerId, "message", <<"Ignoring duplicate message", ToString(m.message_id)>>)
    ELSE LET s1 == Log([st EXCEPT !.processedMessages = @ \cup {m.message_id}],
                       BuyerId, "received", <<"Received", m.type>>)
         IN IF DispatchThrows(m)
              THEN [s1 EXCEPT !.logs = @ (+) SetToBag({ErrorHandling(m)}),
                              !.processedMessages = @ \ {m.message_id}]
              ELSE CASE m.type = "quote" -> handleQuote(s1, m)
                     [] m.type = "delivery_confirmation" -> handleDelivery(s1, m)
                     [] OTHER -> s1

\* purchaseTokens after the provider was found
purchaseTokens(st, tokenCount, provider) ==
  LET s1 == Log(Log(st, BuyerId, "message", <<"Looking for GPT-4 token provider">>),
                BuyerId, "message", <<"Found provider", provider.agent_name>>)
      s2 == sendMessage(s1, "service_request", BuyerId, provider.agent_id,
                        tokenCount, 0, NoPayment)
  IN Log(s2, BuyerId, "sent", <<"Service request sent">>)

\* the first registered agent is taken, whatever services it offers
FindProvider_anyAgent(ags) == IF Len(ags) > 0 THEN 1 ELSE 0

\* the advertising agent registered last is taken
FindProvider_lastMatch(ags) ==
  IF \E i \in 1..Len(ags) : "gpt4-tokens" \in ags[i].services
    THEN CHOOSE i \in 1..Len(ags) :
           /\ "gpt4-tokens" \in ags[i].services
           /\ \A j \in (i + 1)..Len(ags) : "gpt4-tokens" \notin ags[j].services
    ELSE 0

\* agents.find(a => a.services.includes('gpt4-tokens')): index of the first match, or 0
FindProvider(ags) ==
  IF \E i \in 1..Len(ags) : "gpt4-tokens" \in ags[i].services
    THEN CHOOSE i \in 1..Len(ags) :
           /\ "gpt4-tokens" \in ags[i].services
           /\ \A j \in 1..(i - 1) : "gpt4-tokens" \notin ags[j].services
    ELSE 0

\* the payment is stored and the seller notified, without the transition to
\* DELIVERY_PENDING
handleQuotePaid_skipPending(st, m, paymentId, t) ==
  LET s1 == Log(st, BuyerId, "message", <<"Autonomous signing via Lit Protocol">>)
      sp == storePayment(s1.payments, s1.logs,
              PaymentState(paymentId, PAYMENT_SENT, BuyerId, m.from_agent_id, m.price,
                           <<PaymentEvent(PAYMENT_SENT, t, BuyerId, "quantity")>>,
                           t + RefundWindow, t), t)
      s2 == [s1 EXCEPT !.payments = sp.payments, !.logs = sp.logs]
  IN sendMessage(Log(s2, BuyerId, "sent", <<"Payment sent", ToString(m.price)>>),
                 "payment_notification", BuyerId, m.from_agent_id,
                 m.quantity, m.price, paymentId)

\* handleQuote after makePayment returned {paymentId, signature}
handleQuotePaid(st, m, paymentId, t) ==
  LET s1 == Log(st, BuyerId, "message", <<"Autonomous signing via Lit Protocol">>)
      sp == storePayment(s1.payments, s1.logs,
              PaymentState(paymentId, PAYMENT_SENT, BuyerId, m.from_agent_id, m.price,
                           <<PaymentEvent(PAYMENT_SENT, t, BuyerId, "quantity")>>,
                           t + RefundWindow, t), t)
      up == updatePaymentStatus(sp.payments, sp.logs, paymentId, DELIVERY_PENDING,
                                BuyerId, "awaiting_delivery", t)
      s2 == [s1 EXCEPT !.payments = up.payments, !.logs = up.logs]
  IN IF up.error # NoError
       THEN Log(s2, BuyerId, "message", <<"Payment failed", up.error>>)
       ELSE sendMessage(Log(s2, BuyerId, "sent", <<"Payment sent", ToString(m.price)>>),
                        "payment_notification", BuyerId, m.from_agent_id,
                        m.quantity, m.price, paymentId)

\* a failed makePayment is logged and the provider is called once more
handleQuoteFailed_retry(st, m) ==
  [Log(st, BuyerId, "message", <<"Payment failed", "provider">>)
     EXCEPT !.buyerPending = @ (+) SetToBag({[buyer |-> buyerAgent, msg |-> m]}),
            !.providerCalls =
               @ (+) SetToBag({[buyer |-> buyerAgent, message_id |-> m.message_id]})]

\* a failed makePayment takes the message id out of the processed set
handleQuoteFailed_forget(st, m) ==
  [Log(st, BuyerId, "message", <<"Payment failed", "provider">>)
     EXCEPT !.processedMessages = @ \ {m.message_id}]

\* handleQuote after makePayment threw
handleQuoteFailed(st, m) ==
  Log(st, BuyerId, "message", <<"Payment failed", "provider">>)

\* ---------------------------------------------------------------------
\* SellerAgent (lib/seller-agent.ts)
\* ---------------------------------------------------------------------
\* one flat price, whatever the quantity
calculatePrice_flat(quantity) == 5 * UnitPrice

calculatePrice(quantity) == quantity * UnitPrice

\* the quote is sent twice
handleServiceRequest_twoQuotes(st, m) ==
  LET price == calculatePrice(m.quantity)
      s1 == Log(st, SellerId, "message",
                <<"Sending quote", ToString(price), ToString(m.quantity)>>)
      s2 == sendMessage([s1 EXCEPT !.quotedFor =
                           @ (+) SetToBag({[seller |-> sellerAgent, message_id |-> m.message_id]})],
                        "quote", SellerId, m.from_agent_id, m.quantity, price, NoPayment)
  IN sendMessage(s2, "quote", SellerId, m.from_agent_id, m.quantity, price, NoPayment)

handleServiceRequest(st, m) ==
  LET price == calculatePrice(m.quantity)
      s1 == Log(st, SellerId, "message",
                <<"Sending quote", ToString(price), ToString(m.quantity)>>)
  IN sendMessage([s1 EXCEPT !.quotedFor =
                     @ (+) SetToBag({[seller |-> sellerAgent, message_id |-> m.message_id]})],
                 "quote", SellerId, m.from_agent_id, m.quantity, price, NoPayment)

\* handlePayment up to the await of zendfi.sessionKeys.getStatus
handlePayment(st, m) ==
  [st EXCEPT !.sellerPending =
     @ (+) SetToBag({[seller |-> sellerAgent, msg |-> m, awaiting |-> "getStatus"]})]

\* SellerAgent.handleMessage up to its first suspension
SellerHandleMessage(st, m) ==
  LET s1 == Log(st, SellerId, "received", <<"Received", m.type>>)
  IN CASE m.type = "service_request" -> handleServiceRequest(s1, m)
       [] m.type = "payment_notification" -> handlePayment(s1, m)
       [] OTHER -> s1

\* handlePayment from the return of getStatus to the await of deliverTokens
handlePaymentVerified(st, e, verified) ==
  LET m == e.msg
      s1 == IF verified
              THEN Log(st, SellerId, "received", <<"Payment received", ToString(m.price)>>)
              ELSE Log(st, SellerId, "message", <<"Could not verify payment">>)
      s2 == Log(s1, SellerId, "message", <<"Buyer has 24hr to dispute">>)
  IN [s2 EXCEPT !.sellerPending =
                   (@ (-) SetToBag({e})) (+) SetToBag({[e EXCEPT !.awaiting = "deliverTokens"]}),
                !.deliveries =
                   @ (+) SetToBag({[seller |-> e.seller, message_id |-> m.message_id]})]

\* handlePayment after deliverTokens: the updatePaymentStatus call and, when it
\* does not throw, the confirmation
handlePaymentDelivered(st, e, t) ==
  LET m == e.msg
      s0 == [st EXCEPT !.sellerPending = @ (-) SetToBag({e})]
      up == updatePaymentStatus(s0.payments, s0.logs, m.payment_id, UpdatesObject,
                                Undefined, Undefined, t)
      s1 == [s0 EXCEPT !.payments = up.payments, !.logs = up.logs]
  IN IF up.error # NoError
       THEN [state |-> s1, thrown |-> up]
       ELSE [state |->
               Log(sendMessage(Log(s1, SellerId, "message", <<"Delivered", ToString(m.quantity)>>),
                               "delivery_confirmation", SellerId, m.from_agent_id,
                               m.quantity, 0, m.payment_id),
                   SellerId, "message", <<"Delivery confirmed!">>),
             thrown |-> up]

\* ---------------------------------------------------------------------
\* AgentManager (lib/agent-manager.ts)
\* ---------------------------------------------------------------------
\* token_count of the purchase route's default request
Quantities == {5}

RECURSIVE BuyerForEach(_, _, _)
BuyerForEach(st, queue, i) ==
  IF i > Len(queue) THEN st
  ELSE BuyerForEach(BuyerHandleMessage(st, queue[i]), queue, i + 1)

RECURSIVE SellerForEach(_, _, _)
SellerForEach(st, queue, i) ==
  IF i > Len(queue) THEN st
  ELSE SellerForEach(SellerHandleMessage(st, queue[i]), queue, i + 1)

\* the seller's queue is left alone while a handler of the buyer is suspended
processMessages_blocking(st) ==
  LET buyerMessages == getMessages(st.messages, BuyerId)
      b1 == IF Len(buyerMessages) > 0
              THEN LET d == BuyerForEach(st, buyerMessages, 1)
                   IN [d EXCEPT !.messages = clearMessages(@, BuyerId)]
              ELSE st
      sellerMessages == getMessages(b1.messages, SellerId)
  IN IF Len(sellerMessages) > 0 /\ b1.buyerPending = EmptyBag
       THEN LET d == SellerForEach(b1, sellerMessages, 1)
            IN [d EXCEPT !.messages = clearMessages(@, SellerId)]
       ELSE b1

\* the seller's queue is drained before the buyer's
processMessages_sellerFirst(st) ==
  LET sellerMessages == getMessages(st.messages, SellerId)
      s1 == IF Len(sellerMessages) > 0
              THEN LET d == SellerForEach(st, sellerMessages, 1)
                   IN [d EXCEPT !.messages = clearMessages(@, SellerId)]
              ELSE st
      buyerMessages == getMessages(s1.messages, BuyerId)
  IN IF Len(buyerMessages) > 0
       THEN LET d == BuyerForEach(s1, buyerMessages, 1)
            IN [d EXCEPT !.messages = clearMessages(@, BuyerId)]
       ELSE s1

\* processMessages once both agents are known to be set
processMessages(st) ==
  LET buyerMessages == getMessages(st.messages, BuyerId)
      b1 == IF Len(buyerMessages) > 0
              THEN LET d == BuyerForEach(st, buyerMessages, 1)
                   IN [d EXCEPT !.messages = clearMessages(@, BuyerId)]
              ELSE st
      sellerMessages == getMessages(b1.messages, SellerId)
  IN IF Len(sellerMessages) > 0
       THEN LET d == SellerForEach(b1, sellerMessages, 1)
            IN [d EXCEPT !.messages = clearMessages(@, SellerId)]
       ELSE b1

isInitialized == buyerAgent # NoObject /\ sellerAgent # NoObject

Bump == calls' = calls + 1

\* initializeAgents up to the await inside initializeAgentSessionKeys;
\* getZendFiClient throws when there is no client and no API key
InitializeAgentsCall ==
  /\ calls < MaxCalls
  /\ Bump
  /\ IF clientInstance = NULL /\ ~apiKey
       THEN /\ lastCall' = [op |-> "initializeAgents", error |-> "ZENDFI_API_KEY is not set"]
            /\ UNCHANGED <<clientInstance, initPending>>
       ELSE /\ clientInstance' = "ZendFiClient"
            /\ initPending' = initPending + 1
            /\ UNCHANGED lastCall
  /\ UNCHANGED <<storeVars, now, managerVars, apiKey, pc, processedMessages, buyerPending,
                 sellerPending, nextMsgId, nextPaymentId, wire, ghostVars>>

\* what createAgentSessionKey returns: the keys the provider created, or the
\* mock keys of its catch block when a setup call failed
SessionKeySetups == {"created", "mock"}

\* a failed provider setup makes initializeAgents fail
InitializeAgentsResume_propagate(sessionKeys) ==
  /\ initPending > 0
  /\ initPending' = initPending - 1
  /\ IF sessionKeys = "mock"
       THEN /\ lastCall' = [op |-> "initializeAgents", error |-> "Failed to create session key",
                            sessionKeys |-> sessionKeys]
            /\ UNCHANGED <<agents, logs, managerVars, processedMessages>>
       ELSE /\ LET rb == registerAgent(agents, logs,
                           AgentProfile(BuyerId, "Demo Buyer Agent", {}, "buyer-wallet"))
                   lb == addLog(rb.logs, BuyerId, "message", <<"initialized">>)
                   rs == registerAgent(rb.agents, lb,
                           AgentProfile(SellerId, "Demo GPT-4 Provider", {"gpt4-tokens"},
                                        "seller-wallet"))
                   ls == addLog(rs.logs, SellerId, "message",
                                <<"registered as GPT-4 token provider">>)
               IN /\ agents' = rs.agents
                  /\ logs' = ls
            /\ buyerAgent' = nextHandle
            /\ processedMessages' = {}
            /\ sellerAgent' = nextHandle
            /\ messageProcessingInterval' = nextHandle
            /\ timers' = timers \cup {nextHandle}
            /\ nextHandle' = nextHandle + 1
            /\ lastCall' = [op |-> "initializeAgents", error |-> NoError,
                            sessionKeys |-> sessionKeys]
  /\ UNCHANGED <<messages, payments, now, envVars, buyerPending, sellerPending, nextMsgId,
                 nextPaymentId, wire, ghostVars>>

\* initializeAgents after the session keys came back, real or mock; the
\* wallet handles are opaque to the rest of the program
InitializeAgentsResume(sessionKeys) ==
  /\ initPending > 0
  /\ initPending' = initPending - 1
  /\ LET rb == registerAgent(agents, logs,
                  AgentProfile(BuyerId, "Demo Buyer Agent", {}, "buyer-wallet"))
         lb == addLog(rb.logs, BuyerId, "message", <<"initialized">>)
         rs == registerAgent(rb.agents, lb,
                  AgentProfile(SellerId, "Demo GPT-4 Provider", {"gpt4-tokens"}, "seller-wallet"))
         ls == addLog(rs.logs, SellerId, "message", <<"registered as GPT-4 token provider">>)
     IN /\ agents' = rs.agents
        /\ logs' = ls
  /\ buyerAgent' = nextHandle
  /\ processedMessages' = {}
  /\ sellerAgent' = nextHandle
  /\ messageProcessingInterval' = nextHandle
  /\ timers' = timers \cup {nextHandle}
  /\ nextHandle' = nextHandle + 1
  /\ lastCall' = [op |-> "initializeAgents", error |-> NoError, sessionKeys |-> sessionKeys]
  /\ UNCHANGED <<messages, payments, now, envVars, buyerPending, sellerPending, nextMsgId,
                 nextPaymentId, wire, ghostVars>>

\* one firing of a running interval timer
Tick ==
  /\ timers # {}
  /\ IF buyerAgent = NoObject \/ sellerAgent = NoObject
       THEN Commit(Cur)
       ELSE Commit(processMessages(Cur))
  /\ UNCHANGED <<agents, now, lastCall, managerVars, envVars, initPending, nextPaymentId,
                 paidFor>>

\* the purchase goes to the buyer without looking at the agent reference
triggerPurchase_noCheck(tokenCount) ==
  /\ calls < MaxCalls
  /\ Bump
  /\ IF FindProvider(listAgents(agents)) = 0
       THEN /\ lastCall' = [op |-> "triggerPurchase", error |-> "No provider found"]
            /\ Commit(Log(Cur, BuyerId, "message", <<"Looking for GPT-4 token provider">>))
       ELSE /\ lastCall' = [op |-> "triggerPurchase", error |-> NoError]
            /\ Commit(purchaseTokens(Cur, tokenCount,
                                      agents[FindProvider(listAgents(agents))]))
  /\ UNCHANGED <<agents, now, managerVars, apiKey, clientInstance, pc, initPending,
                 nextPaymentId, paidFor>>

triggerPurchase(tokenCount) ==
  /\ calls < MaxCalls
  /\ Bump
  /\ IF buyerAgent = NoObject
       THEN /\ lastCall' = [op |-> "triggerPurchase", error |-> "Agents not initialized"]
            /\ Commit(Cur)
       ELSE IF FindProvider(listAgents(agents)) = 0
         THEN /\ lastCall' = [op |-> "triggerPurchase", error |-> "No provider found"]
              /\ Commit(Log(Cur, BuyerId, "message", <<"Looking for GPT-4 token provider">>))
         ELSE /\ lastCall' = [op |-> "triggerPurchase", error |-> NoError]
              /\ Commit(purchaseTokens(Cur, tokenCount,
                                        agents[FindProvider(listAgents(agents))]))
  /\ UNCHANGED <<agents, now, managerVars, apiKey, clientInstance, pc, initPending,
                 nextPaymentId, paidFor>>

\* the handlers that are suspended when reset runs are cancelled
reset_cancelPending ==
  /\ calls < MaxCalls
  /\ Bump
  /\ timers' = IF messageProcessingInterval # NoTimer
                 THEN timers \ {messageProcessingInterval}
                 ELSE timers
  /\ messageProcessingInterval' = NoTimer
  /\ buyerAgent' = NoObject
  /\ sellerAgent' = NoObject
  /\ agents' = <<>>
  /\ messages' = [a \in {} |-> <<>>]
  /\ payments' = [p \in {} |-> 0]
  /\ logs' = EmptyBag
  /\ lastCall' = [op |-> "reset"]
  /\ buyerPending' = EmptyBag
  /\ sellerPending' = EmptyBag
  /\ UNCHANGED <<now, nextHandle, apiKey, clientInstance, pc, processedMessages, initPending,
                 nextMsgId, nextPaymentId, wire, ghostVars>>

reset ==
  /\ calls < MaxCalls
  /\ Bump
  /\ timers' = IF messageProcessingInterval # NoTimer
                 THEN timers \ {messageProcessingInterval}
                 ELSE timers
  /\ messageProcessingInterval' = NoTimer
  /\ buyerAgent' = NoObject
  /\ sellerAgent' = NoObject
  /\ agents' = <<>>
  /\ messages' = [a \in {} |-> <<>>]
  /\ payments' = [p \in {} |-> 0]
  /\ logs' = EmptyBag
  /\ lastCall' = [op |-> "reset"]
  /\ UNCHANGED <<now, nextHandle, apiKey, clientInstance, pc, agentVars>>

\* ---------------------------------------------------------------------
\* The environment: the payment provider, the delivery timer, the network
\* ---------------------------------------------------------------------
ProviderIdTable == <<"pay-1", "pay-2", "pay-3", "pay-4", "pay-5", "pay-6">>

\* makePayment returns
MakePaymentResolve(e) ==
  /\ BagIn(e, buyerPending)
  /\ nextPaymentId <= Len(ProviderIdTable)
  /\ nextPaymentId' = nextPaymentId + 1
  /\ Commit(handleQuotePaid([Cur EXCEPT !.buyerPending = @ (-) SetToBag({e})],
                             e.msg, ProviderIdTable[nextPaymentId], now))
  /\ paidFor' = [p \in DOMAIN paidFor \cup {ProviderIdTable[nextPaymentId]} |->
                   IF p = ProviderIdTable[nextPaymentId]
                     THEN [buyer |-> e.buyer, message_id |-> e.msg.message_id]
                     ELSE paidFor[p]]
  /\ UNCHANGED <<agents, now, lastCall, managerVars, envVars, initPending>>

\* makePayment throws
MakePaymentReject(e) ==
  /\ BagIn(e, buyerPending)
  /\ Commit(handleQuoteFailed([Cur EXCEPT !.buyerPending = @ (-) SetToBag({e})], e.msg))
  /\ UNCHANGED <<agents, now, lastCall, managerVars, envVars, initPending, nextPaymentId,
                 paidFor>>

\* getStatus returns or throws
GetStatusSettle(e, verified) ==
  /\ BagIn(e, sellerPending)
  /\ e.awaiting = "getStatus"
  /\ Commit(handlePaymentVerified(Cur, e, verified))
  /\ UNCHANGED <<agents, now, lastCall, managerVars, envVars, initPending, nextPaymentId,
                 paidFor>>

\* the setTimeout of deliverTokens fires
DeliverTokensDone(e) ==
  /\ BagIn(e, sellerPending)
  /\ e.awaiting = "deliverTokens"
  /\ LET r == handlePaymentDelivered(Cur, e, now)
     IN /\ Commit(r.state)
        /\ lastCall' = [op |-> "updatePaymentStatus", error |-> r.thrown.error,
                        current |-> r.thrown.current, allowed |-> r.thrown.allowed]
  /\ UNCHANGED <<agents, now, managerVars, envVars, initPending, nextPaymentId, paidFor>>

\* the network delivers a message a second time
Redeliver(m) ==
  /\ calls < MaxCalls
  /\ Bump
  /\ m \in wire
  /\ LET r == storeMessage(messages, logs, m)
     IN /\ messages' = r.messages
        /\ logs' = r.logs
  /\ UNCHANGED <<agents, payments, now, lastCall, managerVars, apiKey, clientInstance,
                 pc, agentVars>>

Init ==
  /\ EmptyInit
  /\ apiKey \in BOOLEAN

SystemClock ==
  /\ now < MaxTime
  /\ now' = now + 1
  /\ UNCHANGED <<storeVars, lastCall, managerVars, agentVars, envVars>>

Next ==
  \/ SystemClock
  \/ InitializeAgentsCall
  \/ \E k \in SessionKeySetups : InitializeAgentsResume(k)
  \/ Tick
  \/ \E q \in Quantities : triggerPurchase(q)
  \/ reset
  \/ \E e \in BagToSet(buyerPending) : MakePaymentResolve(e)
  \/ \E e \in BagToSet(buyerPending) : MakePaymentReject(e)
  \/ \E e \in BagToSet(sellerPending), v \in BOOLEAN : GetStatusSettle(e, v)
  \/ \E e \in BagToSet(sellerPending) : DeliverTokensDone(e)
  \/ \E m \in wire : Redeliver(m)

Spec == Init /\ [][Next]_vars

\* The system with a network that delivers every message once: the queues
\* are filled by sendMessage alone and emptied by the manager's poll ticks.
RouterNext ==
  \/ SystemClock
  \/ InitializeAgentsCall
  \/ \E k \in SessionKeySetups : InitializeAgentsResume(k)
  \/ Tick
  \/ \E q \in Quantities : triggerPurchase(q)
  \/ reset
  \/ \E e \in BagToSet(buyerPending) : MakePaymentResolve(e)
  \/ \E e \in BagToSet(buyerPending) : MakePaymentReject(e)
  \/ \E e \in BagToSet(sellerPending), v \in BOOLEAN : GetStatusSettle(e, v)
  \/ \E e \in BagToSet(sellerPending) : DeliverTokensDone(e)

RouterSpec == Init /\ [][RouterNext]_vars

\* The system left running: no reset, no redelivery, the provider answers
\* every makePayment, and every timer and every pending call comes back.
LiveInit ==
  /\ EmptyInit
  /\ apiKey = TRUE

LiveNext ==
  \/ SystemClock
  \/ InitializeAgentsCall
  \/ \E k \in SessionKeySetups : InitializeAgentsResume(k)
  \/ Tick
  \/ \E q \in Quantities : triggerPurchase(q)
  \/ \E e \in BagToSet(buyerPending) : MakePaymentResolve(e)
  \/ \E e \in BagToSet(sellerPending), v \in BOOLEAN : GetStatusSettle(e, v)
  \/ \E e \in BagToSet(sellerPending) : DeliverTokensDone(e)

LiveSpec ==
  /\ LiveInit
  /\ [][LiveNext]_vars
  /\ WF_vars(\E k \in SessionKeySetups : InitializeAgentsResume(k))
  /\ WF_vars(Tick)
  /\ WF_vars(\E e \in BagToSet(buyerPending) : MakePaymentResolve(e))
  /\ WF_vars(\E e \in BagToSet(sellerPending), v \in BOOLEAN : GetStatusSettle(e, v))
  /\ WF_vars(\E e \in BagToSet(sellerPending) : DeliverTokensDone(e))

\* ---------------------------------------------------------------------
\* The agent classes driven by a caller of their own, without the
\* AgentManager: objects are constructed, initialized and called one at a
\* time.  buyerAgent and sellerAgent hold the caller's two references.
\* ---------------------------------------------------------------------
\* messages a caller hands to BuyerAgent.handleMessage
ExampleMessages ==
  {Message(id, type, SellerId, BuyerId, 5, calculatePrice(5), NoPayment) :
     id \in {"msg-duplicate-789", "msg-2"}, type \in {"quote", "delivery_confirmation"}}

\* new BuyerAgent(config)
NewBuyerAgent ==
  /\ buyerAgent = NoObject
  /\ buyerAgent' = nextHandle
  /\ nextHandle' = nextHandle + 1
  /\ processedMessages' = {}
  /\ UNCHANGED <<storeVars, now, lastCall, sellerAgent, messageProcessingInterval, timers,
                 envVars, initPending, buyerPending, sellerPending, nextMsgId,
                 nextPaymentId, wire, ghostVars>>

\* new SellerAgent(config)
NewSellerAgent ==
  /\ sellerAgent = NoObject
  /\ sellerAgent' = nextHandle
  /\ nextHandle' = nextHandle + 1
  /\ UNCHANGED <<storeVars, now, lastCall, buyerAgent, messageProcessingInterval, timers,
                 envVars, agentVars>>

AgentCallUnchanged ==
  UNCHANGED <<now, managerVars, apiKey, pc, initPending, nextPaymentId, paidFor>>

\* BuyerAgent.initialize
BuyerInitializeCall ==
  /\ buyerAgent # NoObject
  /\ calls < MaxCalls
  /\ Bump
  /\ LET rb == registerAgent(agents, logs,
                  AgentProfile(BuyerId, "Demo Buyer Agent", {}, "buyer-wallet"))
     IN /\ agents' = rb.agents
        /\ logs' = addLog(rb.logs, BuyerId, "message", <<"initialized">>)
  /\ lastCall' = [op |-> "initialize", error |-> NoError]
  /\ UNCHANGED <<messages, payments, clientInstance, processedMessages, buyerPending,
                 sellerPending, nextMsgId, wire, providerCalls, quotedFor, deliveries>>
  /\ AgentCallUnchanged

\* SellerAgent.initialize
SellerInitializeCall ==
  /\ sellerAgent # NoObject
  /\ calls < MaxCalls
  /\ Bump
  /\ LET rs == registerAgent(agents, logs,
                  AgentProfile(SellerId, "Demo GPT-4 Provider", {"gpt4-tokens"}, "seller-wallet"))
     IN /\ agents' = rs.agents
        /\ logs' = addLog(rs.logs, SellerId, "message", <<"registered as GPT-4 token provider">>)
  /\ lastCall' = [op |-> "initialize", error |-> NoError]
  /\ UNCHANGED <<messages, payments, clientInstance, processedMessages, buyerPending,
                 sellerPending, nextMsgId, wire, providerCalls, quotedFor, deliveries>>
  /\ AgentCallUnchanged

\* BuyerAgent.purchaseTokens
PurchaseTokensCall(tokenCount) ==
  /\ buyerAgent # NoObject
  /\ calls < MaxCalls
  /\ Bump
  /\ IF FindProvider(listAgents(agents)) = 0
       THEN /\ lastCall' = [op |-> "purchaseTokens", error |-> "No provider found"]
            /\ Commit(Log(Cur, BuyerId, "message", <<"Looking for GPT-4 token provider">>))
       ELSE /\ lastCall' = [op |-> "purchaseTokens", error |-> NoError]
            /\ Commit(purchaseTokens(Cur, tokenCount,
                                      agents[FindProvider(listAgents(agents))]))
  /\ UNCHANGED <<agents, clientInstance>>
  /\ AgentCallUnchanged

\* BuyerAgent.handleMessage; a quote that is dispatched makes getZendFiClient
\* build and cache the client when the key is set
BuyerHandleMessageCall(m) ==
  /\ buyerAgent # NoObject
  /\ calls < MaxCalls
  /\ Bump
  /\ Commit(BuyerHandleMessage(Cur, m))
  /\ lastCall' = [op |-> "handleMessage", message_id |-> m.message_id,
                  error |-> IF m.message_id \notin processedMessages /\ DispatchThrows(m)
                              THEN "ZENDFI_API_KEY is not set" ELSE NoError]
  /\ clientInstance' = IF m.message_id \notin processedMessages /\ m.type = "quote" /\ apiKey
                         THEN "ZendFiClient" ELSE clientInstance
  /\ UNCHANGED agents
  /\ AgentCallUnchanged

\* token counts a caller passes to BuyerAgent.purchaseTokens
TokenCounts == {1, 5}

\* a second provider of the same service, registered by a caller of the store
OtherProviderId == "provider-agent-2"

OtherProvider == AgentProfile(OtherProviderId, "Second GPT-4 Provider", {"gpt4-tokens"}, "other-wallet")

\* service requests a caller hands to SellerAgent.handleMessage
ExampleRequests ==
  {Message(id, "service_request", from, SellerId, q, 0, NoPayment) :
     id \in {"req-1"}, from \in {BuyerId, OtherProviderId}, q \in TokenCounts}

\* agentStore.registerAgent called directly
RegisterAgentCall(profile) ==
  /\ calls < MaxCalls
  /\ Bump
  /\ LET r == registerAgent(agents, logs, profile)
     IN /\ agents' = r.agents
        /\ logs' = r.logs
  /\ lastCall' = [op |-> "registerAgent", error |-> NoError]
  /\ UNCHANGED <<messages, payments, clientInstance, processedMessages, buyerPending,
                 sellerPending, nextMsgId, wire, providerCalls, quotedFor, deliveries>>
  /\ AgentCallUnchanged

\* SellerAgent.handleMessage with a service request
SellerHandleMessageCall(m) ==
  /\ sellerAgent # NoObject
  /\ calls < MaxCalls
  /\ Bump
  /\ Commit(SellerHandleMessage(Cur, m))
  /\ lastCall' = [op |-> "handleMessage", message_id |-> m.message_id, error |-> NoError]
  /\ UNCHANGED <<agents, clientInstance>>
  /\ AgentCallUnchanged

BuyerNext ==
  \/ NewBuyerAgent
  \/ NewSellerAgent
  \/ BuyerInitializeCall
  \/ SellerInitializeCall
  \/ RegisterAgentCall(OtherProvider)
  \/ \E q \in TokenCounts : PurchaseTokensCall(q)
  \/ \E m \in ExampleMessages : BuyerHandleMessageCall(m)
  \/ \E m \in ExampleRequests : SellerHandleMessageCall(m)
  \/ \E e \in BagToSet(buyerPending) : MakePaymentResolve(e)
  \/ \E e \in BagToSet(buyerPending) : MakePaymentReject(e)

BuyerSpec == Init /\ [][BuyerNext]_vars

\* =====================================================================
\* Properties
\* =====================================================================
\* The transition table as the specification states it
TransitionTable ==
  {<<INITIATED, QUOTE_RECEIVED>>, <<QUOTE_RECEIVED, PAYMENT_SENT>>,
   <<PAYMENT_SENT, DELIVERY_PENDING>>, <<PAYMENT_SENT, DISPUTED>>,
   <<DELIVERY_PENDING, COMPLETED>>, <<DELIVERY_PENDING, DISPUTED>>,
   <<DELIVERY_PENDING, REFUNDED>>,
   <<DISPUTED, REFUNDED>>, <<DISPUTED, COMPLETED>>}

Terminal == {COMPLETED, REFUNDED}

IsPrefix(a, b) == Len(a) <= Len(b) /\ \A i \in 1..Len(a) : a[i] = b[i]

LastCallIs(op, error) ==
  /\ lastCall.op = op
  /\ lastCall.error = error

StorePaymentStep(p) ==
  StorePaymentCall(p, INITIATED, FALSE) \/ StorePaymentCall(p, PAYMENT_SENT, TRUE)

UpdatePaymentStatusStep(p) ==
  \E s \in PaymentStatus \cup {UpdatesObject} :
    UpdatePaymentStatusCall(p, s, ExampleActor(s), ExampleMetadata(s))

\* C1: after any sequence of storePayment and updatePaymentStatus calls,
\* successful or failed, every stored payment has events and its status is
\* the status of the last event.
C1_StatusIsLastEvent ==
  \A p \in DOMAIN payments :
    /\ Len(payments[p].events) > 0
    /\ payments[p].events[Len(payments[p].events)].status = payments[p].status

\* a payment with a transition behind it, right after a rejected transition
C1_Witness ==
  /\ LastCallIs("updatePaymentStatus", InvalidTransition)
  /\ \E p \in DOMAIN payments : Len(payments[p].events) >= 2

\* C2: updatePaymentStatus with a (current, requested) pair that is not in the
\* transition table fails with the invalid-transition error and leaves the
\* payment's status, updated_at and events as they were.
C2_InvalidTransitionRejected ==
  [][\A p \in ExampleIds, s \in PaymentStatus :
       ( /\ p \in DOMAIN payments
         /\ <<payments[p].status, s>> \notin TransitionTable
         /\ UpdatePaymentStatusCall(p, s, ExampleActor(s), ExampleMetadata(s)) )
       => /\ lastCall'.error = InvalidTransition
          /\ p \in DOMAIN payments'
          /\ payments'[p].status = payments[p].status
          /\ payments'[p].updated_at = payments[p].updated_at
          /\ payments'[p].events = payments[p].events]_vars

\* INITIATED -> COMPLETED was asked for and rejected
C2_Witness ==
  /\ LastCallIs("updatePaymentStatus", InvalidTransition)
  /\ lastCall.current = INITIATED
  /\ \E p \in DOMAIN payments : payments[p].status = INITIATED

\* C3 as stated: once a stored payment is COMPLETED or REFUNDED, no operation
\* changes its status or its events.
C3_TerminalImmutable ==
  [][\A p \in DOMAIN payments :
       (payments[p].status \in Terminal /\ p \in DOMAIN payments')
       => /\ payments'[p].status = payments[p].status
          /\ payments'[p].events = payments[p].events]_vars

\* C3 amended: once a stored payment is COMPLETED or REFUNDED every
\* updatePaymentStatus on it fails, and its status and events change only
\* when storePayment is called again with its payment id.
C3_TerminalUntilRestored ==
  [][\A p \in DOMAIN payments :
       (payments[p].status \in Terminal /\ p \in DOMAIN payments')
       => /\ UpdatePaymentStatusStep(p) => lastCall'.error = InvalidTransition
          /\ \/ /\ payments'[p].status = payments[p].status
                /\ payments'[p].events = payments[p].events
             \/ StorePaymentStep(p)]_vars

\* a transition was tried on a COMPLETED payment
C3_Witness ==
  /\ LastCallIs("updatePaymentStatus", InvalidTransition)
  /\ lastCall.current = COMPLETED
  /\ \E p \in DOMAIN payments : payments[p].status = COMPLETED

\* C8: updatePaymentStatus with a (current, requested) pair of the table
\* succeeds, sets the status, appends exactly one event carrying the requested
\* status, the actor and the metadata, adds exactly one log entry, and leaves
\* the payment's other fields and every other payment as they were.
C8_ValidTransitionEffect ==
  [][\A p \in ExampleIds, s \in PaymentStatus :
       ( /\ p \in DOMAIN payments
         /\ <<payments[p].status, s>> \in TransitionTable
         /\ UpdatePaymentStatusCall(p, s, ExampleActor(s), ExampleMetadata(s)) )
       => /\ lastCall'.error = NoError
          /\ DOMAIN payments' = DOMAIN payments
          /\ payments'[p].status = s
          /\ Len(payments'[p].events) = Len(payments[p].events) + 1
          /\ IsPrefix(payments[p].events, payments'[p].events)
          /\ LET e == payments'[p].events[Len(payments'[p].events)]
             IN /\ e.status = s
                /\ e.actor = ExampleActor(s)
                /\ e.metadata = ExampleMetadata(s)
          /\ BagCardinality(logs') = BagCardinality(logs) + 1
          /\ logs \sqsubseteq logs'
          /\ payments'[p].payment_id = payments[p].payment_id
          /\ payments'[p].buyer_agent_id = payments[p].buyer_agent_id
          /\ payments'[p].seller_agent_id = payments[p].seller_agent_id
          /\ payments'[p].amount = payments[p].amount
          /\ payments'[p].service_type = payments[p].service_type
          /\ payments'[p].refundable_until = payments[p].refundable_until
          /\ payments'[p].created_at = payments[p].created_at
          /\ \A q \in DOMAIN payments \ {p} : payments'[q] = payments[q]]_vars

\* a transition has just succeeded while a second payment is stored
C8_Witness ==
  /\ LastCallIs("updatePaymentStatus", NoError)
  /\ Cardinality(DOMAIN payments) = 2
  /\ \E p \in DOMAIN payments : payments[p].events[Len(payments[p].events)].metadata # Undefined

\* C9 as stated: only updatePaymentStatus changes the status or the events of
\* a payment that is already stored.
C9_OnlyTransitionMutates ==
  [][\A p \in DOMAIN payments \cap DOMAIN payments' :
       ( \/ payments'[p].status # payments[p].status
         \/ payments'[p].events # payments[p].events )
       => UpdatePaymentStatusStep(p)]_vars

\* C9 amended: the status or the events of a stored payment change only in
\* updatePaymentStatus on it, or in storePayment called with its payment id,
\* which replaces the record.
C9_OnlyTransitionOrRestore ==
  [][\A p \in DOMAIN payments \cap DOMAIN payments' :
       ( \/ payments'[p].status # payments[p].status
         \/ payments'[p].events # payments[p].events )
       => UpdatePaymentStatusStep(p) \/ StorePaymentStep(p)]_vars

\* a query ran on a store holding a payment with a history
C9_Witness ==
  /\ lastCall.op \in {"getPaymentEvents", "getPayment", "canRefundPayment"}
  /\ \E p \in DOMAIN payments : Len(payments[p].events) >= 2

\* C10 as stated: from one state to the next the events of a stored payment
\* only grow at the end.
C10_EventsOnlyGrow ==
  [][\A p \in DOMAIN payments \cap DOMAIN payments' :
       IsPrefix(payments[p].events, payments'[p].events)]_vars

\* C10 amended: from one state to the next the events of a stored payment
\* only grow at the end, except in storePayment called with its payment id,
\* which replaces the events with those of the new record.
C10_EventsGrowUnlessRestored ==
  [][\A p \in DOMAIN payments \cap DOMAIN payments' :
       IsPrefix(payments[p].events, payments'[p].events) \/ StorePaymentStep(p)]_vars

\* a history of three events
C10_Witness ==
  \E p \in DOMAIN payments : Len(payments[p].events) >= 3

DuplicateLogged(m) ==
  BagIn([agent_id |-> BuyerId, type |-> "message",
         message |-> <<"Ignoring duplicate message", ToString(m.message_id)>>], logs)

Quotes == {m \in wire : m.type = "quote"}

\* C4: a quote delivered twice to the buyer, the second time after the first
\* or while the first awaits the provider, leads to exactly one makePayment
\* call and at most one payment of the provider for it, and the second
\* delivery does nothing but log the duplicate.
C4_QuotePaidOnce ==
  /\ buyerAgent # NoObject =>
       \A m \in Quotes :
         m.message_id \in processedMessages =>
           CopiesIn([buyer |-> buyerAgent, message_id |-> m.message_id], providerCalls) = 1
  /\ \A c \in BagToSet(providerCalls) : CopiesIn(c, providerCalls) = 1
  /\ \A p, q \in DOMAIN paidFor : paidFor[p] = paidFor[q] => p = q
  /\ buyerAgent # NoObject =>
       \A i \in 1..Len(getMessages(messages, BuyerId)) :
         LET m == getMessages(messages, BuyerId)[i]
         IN m.message_id \in processedMessages =>
              BuyerHandleMessage(Cur, m) =
                Log(Cur, BuyerId, "message",
                    <<"Ignoring duplicate message", ToString(m.message_id)>>)

\* the duplicate of a quote was ignored and the quote's one payment is stored
C4_Witness ==
  \E m \in Quotes :
    /\ buyerAgent # NoObject
    /\ m.message_id \in processedMessages
    /\ DuplicateLogged(m)
    /\ CopiesIn([buyer |-> buyerAgent, message_id |-> m.message_id], providerCalls) = 1
    /\ \E p \in DOMAIN payments :
         /\ p \in DOMAIN paidFor
         /\ paidFor[p].message_id = m.message_id

\* C5: a service_request delivered to the seller more than once is answered
\* with at most one quote, so there are never more makePayment calls than
\* service_requests sent.
C5_RequestQuotedOnce ==
  /\ \A r \in BagToSet(quotedFor) : CopiesIn(r, quotedFor) <= 1
  /\ BagCardinality(providerCalls) <= Cardinality({m \in wire : m.type = "service_request"})

\* C6: a payment_notification delivered to the seller twice is delivered on
\* once.
C6_NotificationDeliveredOnce ==
  \A d \in BagToSet(deliveries) : CopiesIn(d, deliveries) <= 1

\* C7: with the agents initialized, the provider answering and the timers
\* firing, a triggered purchase leads to a payment that is COMPLETED and to a
\* delivery_confirmation for it.
C7_PurchaseCompletes ==
  (\E m \in wire : m.type = "service_request")
    ~> (\E p \in DOMAIN payments :
          /\ payments[p].status = COMPLETED
          /\ \E m \in wire : m.type = "delivery_confirmation" /\ m.payment_id = p)

\* C11: every stored payment has at least one event; storing a payment handed
\* in with no events leaves it with exactly one event, carrying the payment's
\* status and the buyer as actor; no step empties a stored event list.
C11_EventsNeverEmpty ==
  [][/\ \A p \in DOMAIN payments' : Len(payments'[p].events) >= 1
     /\ \A p \in ExampleIds :
          StorePaymentCall(p, INITIATED, FALSE) =>
            payments'[p].events = <<PaymentEvent(INITIATED, now, "buyer-1", Undefined)>>]_vars

C11_Witness ==
  /\ lastCall.op = "storePayment"
  /\ \E p \in DOMAIN payments :
       /\ payments[p].events =
            <<PaymentEvent(payments[p].status, payments[p].created_at,
                           payments[p].buyer_agent_id, Undefined)>>
       /\ payments[p].status = INITIATED

\* C12: as the clock only moves forward, no step lowers the updated_at of a
\* payment id that is stored before and after it, and updated_at is never
\* earlier than created_at.
C12_UpdatedAtMonotone ==
  [][/\ \A p \in DOMAIN payments \cap DOMAIN payments' :
          payments'[p].updated_at >= payments[p].updated_at
     /\ \A p \in DOMAIN payments' :
          payments'[p].updated_at >= payments'[p].created_at]_vars

C12_Witness ==
  \E p \in DOMAIN payments :
    /\ payments[p].updated_at > payments[p].created_at
    /\ Len(payments[p].events) >= 3
    /\ lastCall.op = "updatePaymentStatus"

\* C13: canRefundPayment answers true exactly when the payment is stored, is
\* DELIVERY_PENDING and the current time is strictly before refundable_until;
\* it answers false for a COMPLETED or REFUNDED payment and for an unknown
\* id, and it changes nothing in the store.
C13_RefundEligibility ==
  [][\A p \in ExampleIds :
       CanRefundPaymentCall(p) =>
         /\ lastCall'.result =
              (/\ p \in DOMAIN payments
               /\ payments[p].status = DELIVERY_PENDING
               /\ now < payments[p].refundable_until)
         /\ (p \in DOMAIN payments /\ payments[p].status \in {COMPLETED, REFUNDED})
              => lastCall'.result = FALSE
         /\ p \notin DOMAIN payments => lastCall'.result = FALSE
         /\ UNCHANGED storeVars]_vars

\* a DELIVERY_PENDING payment asked about at the very end of its window
C13_Witness ==
  /\ lastCall.op = "canRefundPayment"
  /\ lastCall.payment_id \in DOMAIN payments
  /\ payments[lastCall.payment_id].status = DELIVERY_PENDING
  /\ now = payments[lastCall.payment_id].refundable_until
  /\ lastCall.result = FALSE

\* C15: the error of a rejected transition names the payment's current status
\* and lists every status the table allows from it, each once; for a request
\* to go from INITIATED to COMPLETED the list is QUOTE_RECEIVED alone.
C15_RejectionReportsAllowed ==
  [][\A p \in ExampleIds, s \in PaymentStatus \cup {UpdatesObject} :
       ( /\ p \in DOMAIN payments
         /\ <<payments[p].status, s>> \notin TransitionTable
         /\ UpdatePaymentStatusCall(p, s, ExampleActor(s), ExampleMetadata(s)) )
       => /\ lastCall'.error = InvalidTransition
          /\ lastCall'.current = payments[p].status
          /\ {lastCall'.allowed[i] : i \in DOMAIN lastCall'.allowed}
               = {t \in PaymentStatus : <<payments[p].status, t>> \in TransitionTable}
          /\ Len(lastCall'.allowed)
               = Cardinality({t \in PaymentStatus : <<payments[p].status, t>> \in TransitionTable})
          /\ (payments[p].status = INITIATED /\ s = COMPLETED)
               => lastCall'.allowed = <<QUOTE_RECEIVED>>]_vars

\* the rejected request of invalidStateTransitionExample
C15_Witness ==
  /\ LastCallIs("updatePaymentStatus", InvalidTransition)
  /\ lastCall.current = INITIATED
  /\ lastCall.requested = COMPLETED
  /\ lastCall.allowed = <<QUOTE_RECEIVED>>

\* C16: updatePaymentStatus on a payment_id that is not stored fails with the
\* not-found error and leaves the store as it was: no payment is created, no
\* event is appended to any payment and no log entry is written.
C16_UnknownPaymentUntouched ==
  [][\A p \in ExampleIds, s \in PaymentStatus \cup {UpdatesObject} :
       ( /\ p \notin DOMAIN payments
         /\ UpdatePaymentStatusCall(p, s, ExampleActor(s), ExampleMetadata(s)) )
       => /\ lastCall'.error = NotFound
          /\ DOMAIN payments' = DOMAIN payments
          /\ UNCHANGED storeVars]_vars

\* the failed call on an unknown id, made while another payment is stored
C16_Witness ==
  /\ LastCallIs("updatePaymentStatus", NotFound)
  /\ Cardinality(DOMAIN payments) = 1
  /\ BagCardinality(logs) = 1

EventStatuses(events) == [i \in 1..Len(events) |-> events[i].status]

\* C14: for a payment stored as INITIATED with no events, the requests for
\* QUOTE_RECEIVED, PAYMENT_SENT, DELIVERY_PENDING and COMPLETED, made in that
\* order, all succeed; none lowers updated_at; after the last the history is
\* exactly the five events INITIATED, QUOTE_RECEIVED, PAYMENT_SENT,
\* DELIVERY_PENDING, COMPLETED.
C14_DocumentedLifecycle ==
  [][validStateTransitionsExample =>
       /\ lastCall'.error = NoError
       /\ payments'[ExamplePaymentId].updated_at >= payments[ExamplePaymentId].updated_at
       /\ Len(payments'[ExamplePaymentId].events) = pc[2] + 1
       /\ pc'[1] # "validStateTransitionsExample" =>
            EventStatuses(payments'[ExamplePaymentId].events)
              = <<INITIATED, QUOTE_RECEIVED, PAYMENT_SENT, DELIVERY_PENDING, COMPLETED>>]_vars

\* the four transitions are done, with the clock having moved during them
C14_Witness ==
  /\ pc = <<"invalidStateTransitionExample", 1>>
  /\ ExamplePaymentId \in DOMAIN payments
  /\ payments[ExamplePaymentId].status = COMPLETED
  /\ Len(payments[ExamplePaymentId].events) = 5
  /\ payments[ExamplePaymentId].events[1].timestamp
       < payments[ExamplePaymentId].events[5].timestamp

\* C18: whenever the agents are not initialized (no initializeAgents has
\* completed yet, one is still awaiting its session keys, or reset has run),
\* triggerPurchase fails with the not-initialized error and sends no message.
C18_PurchaseNeedsInitialization ==
  [][\A q \in Quantities :
       (~isInitialized /\ triggerPurchase(q))
       => /\ lastCall'.error = "Agents not initialized"
          /\ messages' = messages
          /\ wire' = wire
          /\ nextMsgId' = nextMsgId]_vars

\* the refused purchase after a completed initialization and a reset
C18_Witness ==
  /\ LastCallIs("triggerPurchase", "Agents not initialized")
  /\ nextHandle > 1
  /\ ~isInitialized

\* C19: reset stops the polling (no interval timer is left running), clears
\* both agent references and empties the four store collections; a reset
\* made when nothing is initialized changes neither the manager nor the store.
C19_ResetStopsEverything ==
  [][reset =>
       /\ timers' = {}
       /\ messageProcessingInterval' = NoTimer
       /\ ~isInitialized'
       /\ agents' = <<>>
       /\ DOMAIN messages' = {}
       /\ DOMAIN payments' = {}
       /\ logs' = EmptyBag
       /\ (~isInitialized /\ timers = {}) => UNCHANGED <<managerVars, storeVars>>]_vars

NoProviderRegistered == \A i \in 1..Len(agents) : "gpt4-tokens" \notin agents[i].services

\* C17: purchaseTokens called while no registered agent offers gpt4-tokens
\* fails with the no-provider error; no message is queued or sent, no payment
\* is created and the payment provider is not called.
C17_NoProviderNoRequest ==
  [][\A q \in Quantities :
       (NoProviderRegistered /\ PurchaseTokensCall(q))
       => /\ lastCall'.error = "No provider found"
          /\ messages' = messages
          /\ wire' = wire
          /\ payments' = payments
          /\ providerCalls' = providerCalls]_vars

\* the refused purchase of a buyer that is itself registered
C17_Witness ==
  /\ LastCallIs("purchaseTokens", "No provider found")
  /\ getAgent(agents, BuyerId) # <<>>
  /\ NoProviderRegistered
  /\ wire = {}

\* C20: when the dispatch inside the buyer's handleMessage throws, the call
\* fails and the message id is not left in the processed set; a message whose
\* id is not in the set is taken as new (logged as received, not as a
\* duplicate), so the redelivered message is processed again.
C20_FailedMessageRetried ==
  [][\A m \in ExampleMessages :
       BuyerHandleMessageCall(m) =>
         /\ (m.message_id \notin processedMessages /\ DispatchThrows(m))
              => /\ lastCall'.error # NoError
                 /\ m.message_id \notin processedMessages'
         /\ (LastCallIs("handleMessage", "ZENDFI_API_KEY is not set")
               /\ lastCall.message_id = m.message_id)
              => /\ CopiesIn([agent_id |-> BuyerId, type |-> "received",
                              message |-> <<"Received", m.type>>], logs')
                      = 1 + CopiesIn([agent_id |-> BuyerId, type |-> "received",
                                      message |-> <<"Received", m.type>>], logs)
                 /\ ~DuplicateLogged(m)']_vars

\* the same quote handed over twice, failed twice, never taken as a duplicate
C20_Witness ==
  \E m \in ExampleMessages :
    /\ LastCallIs("handleMessage", "ZENDFI_API_KEY is not set")
    /\ lastCall.message_id = m.message_id
    /\ CopiesIn(ErrorHandling(m), logs) = 2
    /\ ~DuplicateLogged(m)
    /\ m.message_id \notin processedMessages

PaymentFailedLogged ==
  BagIn([agent_id |-> BuyerId, type |-> "message",
         message |-> <<"Payment failed", "provider">>], logs)

\* C21: when makePayment fails for a quote, the buyer stores no payment, sends
\* no payment_notification and makes no further provider call; and no step
\* makes a second provider call for a quote whose call has already come back.
C21_FailedPaymentDropped ==
  [][/\ \A e \in BagToSet(buyerPending) :
          MakePaymentReject(e)
          => /\ payments' = payments
             /\ messages' = messages
             /\ wire' = wire
             /\ providerCalls' = providerCalls
             /\ buyerPending' = buyerPending (-) SetToBag({e})
     /\ \A c \in BagToSet(providerCalls) :
          (\A e \in BagToSet(buyerPending) :
              [buyer |-> e.buyer, message_id |-> e.msg.message_id] # c)
          => CopiesIn(c, providerCalls') = CopiesIn(c, providerCalls)]_vars

\* a quote whose provider call failed: nothing stored, nothing sent to the seller
C21_Witness ==
  /\ PaymentFailedLogged
  /\ BagCardinality(providerCalls) = 1
  /\ buyerPending = EmptyBag
  /\ DOMAIN payments = {}
  /\ \A m \in wire : m.type # "payment_notification"

\* C22: when makePayment returns for a quote, the buyer stores one new
\* payment under the returned id, with the quoted price as amount, the events
\* PAYMENT_SENT then DELIVERY_PENDING and the status DELIVERY_PENDING, and
\* sends exactly one message: a payment_notification with that payment id and
\* amount, appended to the queue of the quote's sender, the payment being
\* DELIVERY_PENDING when the notification is there.
C22_PaidQuoteRecorded ==
  [][\A e \in BagToSet(buyerPending) :
       MakePaymentResolve(e) =>
         LET pid == ProviderIdTable[nextPaymentId]
             to == e.msg.from_agent_id
         IN /\ pid \notin DOMAIN payments
            /\ DOMAIN payments' = DOMAIN payments \cup {pid}
            /\ \A p \in DOMAIN payments : payments'[p] = payments[p]
            /\ payments'[pid].amount = e.msg.price
            /\ payments'[pid].status = DELIVERY_PENDING
            /\ EventStatuses(payments'[pid].events) = <<PAYMENT_SENT, DELIVERY_PENDING>>
            /\ Cardinality(wire' \ wire) = 1
            /\ \A n \in wire' \ wire :
                 /\ n.type = "payment_notification"
                 /\ n.payment_id = pid
                 /\ n.price = e.msg.price
                 /\ n.to_agent_id = to
                 /\ getMessages(messages', to) = Append(getMessages(messages, to), n)
            /\ \A a \in DOMAIN messages : a # to => messages'[a] = messages[a]]_vars

\* the paid quote: its payment awaits delivery and its notification is queued
C22_Witness ==
  \E p \in DOMAIN payments :
    /\ p \in DOMAIN paidFor
    /\ payments[p].status = DELIVERY_PENDING
    /\ Len(payments[p].events) = 2
    /\ \E i \in 1..Len(getMessages(messages, SellerId)) :
         /\ getMessages(messages, SellerId)[i].type = "payment_notification"
         /\ getMessages(messages, SellerId)[i].payment_id = p
         /\ getMessages(messages, SellerId)[i].price = payments[p].amount

\* C23: when the delivery for a payment_notification is done and the payment
\* is DELIVERY_PENDING, the seller moves it to COMPLETED and then sends the
\* delivery_confirmation; a confirmation is sent only for a payment that is
\* COMPLETED, and none is sent when the transition fails.
C23_CompletedThenConfirmed ==
  [][\A e \in BagToSet(sellerPending) :
       DeliverTokensDone(e) =>
         LET pid == e.msg.payment_id
             sent == {n \in wire' \ wire : n.type = "delivery_confirmation"}
         IN /\ (pid \in DOMAIN payments /\ payments[pid].status = DELIVERY_PENDING)
                 => /\ payments'[pid].status = COMPLETED
                    /\ \E n \in sent : n.payment_id = pid
            /\ sent # {} => (pid \in DOMAIN payments' /\ payments'[pid].status = COMPLETED)
            /\ lastCall'.error # NoError => sent = {}]_vars

Last(seq) == seq[Len(seq)]

\* handlers that a step has started and left suspended
Started(before, after) == {e \in BagToSet(after) : CopiesIn(e, after) > CopiesIn(e, before)}

\* C24: in one poll tick the handling of a queued message is finished before
\* the handling of the next message of the same queue begins, so a handler
\* that a tick leaves suspended can only be the one of the last message of
\* its queue, and a tick starts at most one such handler per agent.
C24_SequentialDispatch ==
  [][(Tick /\ isInitialized) =>
       /\ \A e \in Started(buyerPending, buyerPending') :
            /\ e.msg = Last(getMessages(messages, BuyerId))
            /\ CopiesIn(e, buyerPending') = CopiesIn(e, buyerPending) + 1
       /\ \A e \in Started(sellerPending, sellerPending') :
            /\ e.msg = Last(getMessages(messages, SellerId))
            /\ CopiesIn(e, sellerPending') = CopiesIn(e, sellerPending) + 1]_vars

InQueue(q, n) == \E i \in 1..Len(q) : q[i] = n

\* C25: a message sent while a poll tick is dispatching (the reply to a
\* message handled in that tick) is not dispatched in that tick: when the
\* tick ends it is in its recipient's queue, for a later tick.
C25_RepliesWaitForNextTick ==
  [][Tick =>
       \A n \in wire' \ wire : InQueue(getMessages(messages', n.to_agent_id), n)]_vars

\* a quote sent during the last tick waits in the buyer's queue
C25_Witness ==
  /\ isInitialized
  /\ \E n \in wire :
       /\ n.type = "quote"
       /\ InQueue(getMessages(messages, BuyerId), n)
       /\ n.message_id \notin processedMessages
       /\ n.message_id + 1 = nextMsgId
  /\ getMessages(messages, SellerId) = <<>>

\* log entries that handleMessage of an agent writes on entry: one for every
\* invocation (received, or ignored as a duplicate)
Dispatches(lg, agent_id) ==
  LET es == {e \in BagToSet(lg) :
               /\ e.agent_id = agent_id
               /\ e.message[1] \in {"Received", "Ignoring duplicate message"}}
  IN BagCardinality([e \in es |-> CopiesIn(e, lg)])

\* C26: a poll tick with both agents set invokes handleMessage once for each
\* entry of each queue and leaves in the queues only what was sent during the
\* tick; between ticks a queue only grows, until reset empties the store. So
\* an entry is dispatched by the tick that follows its enqueueing, not before
\* and not again.
C26_DrainExactlyOnce ==
  [][/\ (Tick /\ isInitialized) =>
          /\ Dispatches(logs', BuyerId)
               = Dispatches(logs, BuyerId) + Len(getMessages(messages, BuyerId))
          /\ Dispatches(logs', SellerId)
               = Dispatches(logs, SellerId) + Len(getMessages(messages, SellerId))
          /\ \A a \in {BuyerId, SellerId} :
               \A i \in 1..Len(getMessages(messages', a)) :
                 getMessages(messages', a)[i] \in wire' \ wire
     /\ (~(Tick /\ isInitialized) /\ ~reset) =>
          /\ \A a \in {BuyerId, SellerId} :
               IsPrefix(getMessages(messages, a), getMessages(messages', a))
          /\ \A a \in {BuyerId, SellerId} : Dispatches(logs', a) = Dispatches(logs, a)]_vars

\* a tick has just dispatched a queue of two entries, one of them a copy
C26_Witness ==
  /\ isInitialized
  /\ Dispatches(logs, SellerId) = 2
  /\ BagCardinality(quotedFor) = 2
  /\ getMessages(messages, SellerId) = <<>>
  /\ Len(getMessages(messages, BuyerId)) = 2
  /\ Cardinality({m \in wire : m.type = "service_request"}) = 1

LegalPath(events) ==
  \A i \in 1..(Len(events) - 1) : <<events[i].status, events[i + 1].status>> \in TransitionTable

\* C27: updatePaymentStatus checks and writes in one step, so of a request
\* for COMPLETED and a request for REFUNDED made on a DELIVERY_PENDING
\* payment, whichever comes first succeeds and the other, finding the payment
\* terminal, fails with the invalid-transition error and changes nothing; the
\* event history of every payment stays a path of the transition table.
C27_TransitionsSerialized ==
  [][/\ \A p \in ExampleIds, s \in {COMPLETED, REFUNDED} :
          (p \in DOMAIN payments
             /\ UpdatePaymentStatusCall(p, s, ExampleActor(s), ExampleMetadata(s)))
          => /\ payments[p].status = DELIVERY_PENDING
                  => (lastCall'.error = NoError /\ payments'[p].status = s)
             /\ payments[p].status \in Terminal
                  => (lastCall'.error = InvalidTransition /\ payments' = payments)
     /\ \A p \in DOMAIN payments' : LegalPath(payments'[p].events)]_vars

\* the delivery was completed first; the refund that raced with it was refused
C27_Witness ==
  /\ LastCallIs("updatePaymentStatus", InvalidTransition)
  /\ lastCall.requested = REFUNDED
  /\ lastCall.current = COMPLETED
  /\ \E p \in DOMAIN payments :
       /\ payments[p].status = COMPLETED
       /\ payments[p].events[Len(payments[p].events) - 1].status = DELIVERY_PENDING

\* C28: while a makePayment call of the buyer has not come back, the timer
\* can still fire, and a tick still dispatches and drains the seller's queue;
\* the tick leaves the suspended handler suspended.
C28_HungPaymentDoesNotBlockSeller ==
  [][/\ (isInitialized /\ buyerPending # EmptyBag /\ messageProcessingInterval # NoTimer)
          => ENABLED Tick
     /\ (Tick /\ isInitialized /\ buyerPending' # EmptyBag) =>
          /\ Dispatches(logs', SellerId)
               = Dispatches(logs, SellerId) + Len(getMessages(messages, SellerId))
          /\ getMessages(messages', SellerId) = <<>>
          /\ \A e \in BagToSet(buyerPending) : BagIn(e, buyerPending')]_vars

\* the second request was quoted while the payment for the first quote hung
C28_Witness ==
  /\ isInitialized
  /\ BagCardinality(buyerPending) = 1
  /\ BagCardinality(quotedFor) = 2
  /\ DOMAIN payments = {}
  /\ getMessages(messages, SellerId) = <<>>
  /\ \E n \in wire :
       /\ n.type = "quote"
       /\ InQueue(getMessages(messages, BuyerId), n)
       /\ n.message_id \notin processedMessages

\* C29 as stated: when the provider's session-key setup failed (the keys that
\* came back are the mock ones), initializeAgents fails, registers no agent,
\* starts no polling timer and leaves isInitialized() false.
C29_SetupFailurePropagates ==
  [][InitializeAgentsResume("mock")
       => /\ lastCall'.error # NoError
          /\ agents' = agents
          /\ timers' = timers
          /\ ~isInitialized']_vars

\* C29: only a missing API key makes initializeAgents fail, and then no agent
\* is registered, no timer is started and isInitialized() keeps its value;
\* a failed provider setup is caught inside createAgentSessionKey, the mock
\* keys are used, and initializeAgents succeeds: both agents are registered,
\* a polling timer is started and isInitialized() is true.
C29_OnlyMissingKeyPropagates ==
  [][/\ (InitializeAgentsCall /\ clientInstance = NULL /\ ~apiKey)
          => /\ lastCall'.op = "initializeAgents"
             /\ lastCall'.error # NoError
             /\ agents' = agents
             /\ timers' = timers
             /\ messageProcessingInterval' = messageProcessingInterval
             /\ initPending' = initPending
             /\ isInitialized' = isInitialized
     /\ \A k \in SessionKeySetups :
          InitializeAgentsResume(k)
            => /\ lastCall' = [op |-> "initializeAgents", error |-> NoError, sessionKeys |-> k]
               /\ getAgent(agents', BuyerId) # <<>>
               /\ getAgent(agents', SellerId) # <<>>
               /\ messageProcessingInterval' \in timers' \ timers
               /\ isInitialized']_vars

\* initializeAgents has returned normally although the provider setup failed
C29_Witness ==
  /\ lastCall = [op |-> "initializeAgents", error |-> NoError, sessionKeys |-> "mock"]
  /\ isInitialized
  /\ getAgent(agents, BuyerId) # <<>>
  /\ getAgent(agents, SellerId) # <<>>
  /\ messageProcessingInterval \in timers

\* the statuses the README lists for a payment, in order
TrackedStates == <<INITIATED, QUOTE_RECEIVED, PAYMENT_SENT, DELIVERY_PENDING, COMPLETED>>

\* C30 as stated: every payment the purchase flow has stored is tracked
\* through INITIATED, QUOTE_RECEIVED, PAYMENT_SENT, DELIVERY_PENDING,
\* COMPLETED: the statuses of its event history are, in order, the first
\* statuses of that list, and all five once the payment is COMPLETED.
C30_TrackedThroughFiveStates ==
  \A p \in DOMAIN payments :
    /\ IsPrefix(EventStatuses(payments[p].events), TrackedStates)
    /\ payments[p].status = COMPLETED
         => EventStatuses(payments[p].events) = TrackedStates

\* C31: SellerAgent.handleMessage with a service_request of quantity q from
\* agent A sends exactly one message: a quote from the seller to A, appended
\* to A's queue, with quantity q and price q times the unit price; no other
\* queue changes and no payment is created or changed.
C31_OneQuotePerRequest ==
  [][\A m \in ExampleRequests :
       SellerHandleMessageCall(m)
         => /\ \E n \in wire' \ wire :
                 /\ wire' \ wire = {n}
                 /\ n.type = "quote"
                 /\ n.from_agent_id = SellerId
                 /\ n.to_agent_id = m.from_agent_id
                 /\ n.quantity = m.quantity
                 /\ n.price = m.quantity * UnitPrice
                 /\ getMessages(messages', m.from_agent_id)
                      = Append(getMessages(messages, m.from_agent_id), n)
            /\ \A a \in DOMAIN messages' \ {m.from_agent_id} :
                 getMessages(messages', a) = getMessages(messages, a)
            /\ payments' = payments]_vars

\* a request for 5 tokens from the second agent was answered: its queue ends
\* with a quote for 5 tokens at 5 * 0.01 dollars
C31_Witness ==
  /\ lastCall.op = "handleMessage"
  /\ lastCall.message_id = "req-1"
  /\ Len(getMessages(messages, OtherProviderId)) > 0
  /\ LET n == Last(getMessages(messages, OtherProviderId))
     IN /\ n.type = "quote"
        /\ n.quantity = 5
        /\ n.price = 500

\* C32: when some registered agent advertises gpt4-tokens, purchaseTokens(q)
\* sends exactly one message: a service_request of quantity q from the buyer,
\* appended to the queue of the first advertising agent in registration
\* order; no other queue changes and no payment is created or changed.
C32_OneRequestToFirstProvider ==
  [][\A q \in TokenCounts :
       (PurchaseTokensCall(q) /\ \E i \in 1..Len(agents) : "gpt4-tokens" \in agents[i].services)
         => \E i \in 1..Len(agents) :
              /\ "gpt4-tokens" \in agents[i].services
              /\ \A j \in 1..(i - 1) : "gpt4-tokens" \notin agents[j].services
              /\ lastCall'.error = NoError
              /\ \E n \in wire' \ wire :
                   /\ wire' \ wire = {n}
                   /\ n.type = "service_request"
                   /\ n.from_agent_id = BuyerId
                   /\ n.to_agent_id = agents[i].agent_id
                   /\ n.quantity = q
                   /\ getMessages(messages', n.to_agent_id)
                        = Append(getMessages(messages, n.to_agent_id), n)
              /\ \A a \in DOMAIN messages' \ {agents[i].agent_id} :
                   getMessages(messages', a) = getMessages(messages, a)
              /\ payments' = payments]_vars

\* two providers are registered, the second provider before the seller, and
\* a request for one token sits in the queue of the one registered first
C32_Witness ==
  /\ lastCall = [op |-> "purchaseTokens", error |-> NoError]
  /\ Len(agents) = 2
  /\ agents[1].agent_id = OtherProviderId
  /\ agents[2].agent_id = SellerId
  /\ getMessages(messages, SellerId) = <<>>
  /\ Len(getMessages(messages, OtherProviderId)) = 1
  /\ getMessages(messages, OtherProviderId)[1].type = "service_request"
  /\ getMessages(messages, OtherProviderId)[1].quantity = 1

\* C33: storePayment called with a payment id that is already stored puts the
\* new record in place of the old one, whatever the old status was and whether
\* or not the table allows a transition from it: afterwards the payment has
\* the status, the events and the timestamps of the new record alone, and
\* every other payment is as it was.
C33_StoreReplacesRecord ==
  [][\A p \in ExampleIds, s \in {INITIATED, PAYMENT_SENT} :
       (p \in DOMAIN payments /\ StorePaymentCall(p, s, s = PAYMENT_SENT))
         => /\ DOMAIN payments' = DOMAIN payments
            /\ payments'[p].status = s
            /\ EventStatuses(payments'[p].events) = <<s>>
            /\ payments'[p].events[1].timestamp = now
            /\ payments'[p].created_at = now
            /\ payments'[p].updated_at = now
            /\ payments'[p].refundable_until = now + RefundWindow
            /\ \A o \in DOMAIN payments \ {p} : payments'[o] = payments[o]]_vars

\* a payment that had been moved to COMPLETED was stored again as INITIATED
C33_Witness ==
  /\ lastCall.op = "storePayment"
  /\ \E p \in DOMAIN payments :
       /\ payments[p].status = INITIATED
       /\ EventStatuses(payments[p].events) = <<INITIATED>>
       /\ BagIn([agent_id |-> "seller-1", type |-> "message",
                 message |-> <<"Payment", p, COMPLETED>>], logs)

\* C34: reset clears the store and drops the agents but leaves every
\* suspended handler where it is.  A makePayment that returns for a buyer the
\* manager no longer holds still stores its payment, in DELIVERY_PENDING, and
\* queues its payment_notification in the store as it is then; a deliverTokens
\* that finishes for a seller the manager no longer holds, on a payment the
\* store no longer has, still calls updatePaymentStatus, which fails with
\* payment-not-found and changes nothing.
C34_ResetDoesNotAwait ==
  [][/\ reset => /\ buyerPending' = buyerPending
                 /\ sellerPending' = sellerPending
                 /\ DOMAIN payments' = {}
                 /\ DOMAIN messages' = {}
     /\ \A e \in BagToSet(buyerPending) :
          (MakePaymentResolve(e) /\ e.buyer # buyerAgent)
            => /\ ProviderIdTable[nextPaymentId] \in DOMAIN payments'
               /\ payments'[ProviderIdTable[nextPaymentId]].status = DELIVERY_PENDING
               /\ \E n \in wire' \ wire :
                    /\ n.type = "payment_notification"
                    /\ n.payment_id = ProviderIdTable[nextPaymentId]
                    /\ InQueue(getMessages(messages', n.to_agent_id), n)
     /\ \A e \in BagToSet(sellerPending) :
          (DeliverTokensDone(e) /\ e.seller # sellerAgent /\ e.msg.payment_id \notin DOMAIN payments)
            => /\ lastCall'.op = "updatePaymentStatus"
               /\ lastCall'.error = NotFound
               /\ payments' = payments
               /\ wire' = wire]_vars

\* after reset, with no agents held, the store holds a payment and its
\* notification: a payment call that was outstanding at reset has returned
C34_Witness ==
  /\ lastCall.op = "reset"
  /\ ~isInitialized
  /\ timers = {}
  /\ \E p \in DOMAIN payments :
       /\ payments[p].status = DELIVERY_PENDING
       /\ \E i \in 1..Len(getMessages(messages, SellerId)) :
            /\ getMessages(messages, SellerId)[i].type = "payment_notification"
            /\ getMessages(messages, SellerId)[i].payment_id = p

\* the status reached by following the events from the first one along the
\* transition table, or Undefined when an event is not a legal successor of
\* the one before it
RECURSIVE Replay(_, _, _)
Replay(events, i, status) ==
  IF i > Len(events) THEN status
  ELSE IF <<status, events[i].status>> \in TransitionTable
    THEN Replay(events, i + 1, events[i].status)
    ELSE Undefined

\* C35: in every stored payment each event's status is a legal successor, by
\* the transition table, of the status of the event before it, and replaying
\* the events from the first one ends in the payment's current status.
C35_ReplayGivesStatus ==
  \A p \in DOMAIN payments :
    /\ Len(payments[p].events) >= 1
    /\ \A i \in 1..(Len(payments[p].events) - 1) :
         <<payments[p].events[i].status, payments[p].events[i + 1].status>> \in TransitionTable
    /\ Replay(payments[p].events, 2, payments[p].events[1].status) = payments[p].status

\* a payment disputed while its delivery was pending: three events to replay
C35_Witness ==
  \E p \in DOMAIN payments :
    /\ payments[p].status = DISPUTED
    /\ EventStatuses(payments[p].events) = <<PAYMENT_SENT, DELIVERY_PENDING, DISPUTED>>

\* the number of transitions a payment in a given status can still make
StepsLeft ==
  [s \in PaymentStatus |->
     CASE s = INITIATED -> 5
       [] s = QUOTE_RECEIVED -> 4
       [] s = PAYMENT_SENT -> 3
       [] s = DELIVERY_PENDING -> 2
       [] s = DISPUTED -> 1
       [] OTHER -> 0]

\* C36: for a payment changed only by updatePaymentStatus, no status occurs
\* twice in its events, the events are never more than 6, every successful
\* transition lowers the number of transitions still possible from the
\* payment's status, and once that number is 0 or the events are 6 every
\* further updatePaymentStatus fails and changes nothing.
C36_NoCycle ==
  [][/\ \A p \in DOMAIN payments' :
          /\ \A i, j \in 1..Len(payments'[p].events) :
               i # j => payments'[p].events[i].status # payments'[p].events[j].status
          /\ Len(payments'[p].events) <= 6
     /\ \A p \in DOMAIN payments, s \in PaymentStatus :
          TransitionCall(p, s)
            => /\ lastCall'.error = NoError
                    => StepsLeft[payments'[p].status] < StepsLeft[payments[p].status]
               /\ (StepsLeft[payments[p].status] = 0 \/ Len(payments[p].events) = 6)
                    => (lastCall'.error = InvalidTransition /\ payments' = payments)]_vars

\* the longest life: six events, through a dispute, and a transition refused
\* at its end
C36_Witness ==
  /\ LastCallIs("updatePaymentStatus", InvalidTransition)
  /\ \E p \in DOMAIN payments :
       EventStatuses(payments[p].events)
         = <<INITIATED, QUOTE_RECEIVED, PAYMENT_SENT, DELIVERY_PENDING, DISPUTED, COMPLETED>>

\* C37: when makePayment fails for a quote, handleMessage ends with no error
\* for its caller, the failure is only logged, and the quote's message id
\* stays in the buyer's processed set, which nothing ever takes an id out of
\* again; a later handleMessage with the same message is ignored as a
\* duplicate: it returns normally, calls the provider no more and stores no
\* payment, so the quote stays unpaid.
C37_FailedQuoteNeverRetried ==
  [][/\ \A e \in BagToSet(buyerPending) :
          MakePaymentReject(e)
            => /\ e.msg.message_id \in processedMessages'
               /\ lastCall' = lastCall
               /\ PaymentFailedLogged'
               /\ paidFor' = paidFor
     /\ buyerAgent' = buyerAgent => processedMessages \subseteq processedMessages'
     /\ \A m \in ExampleMessages :
          (BuyerHandleMessageCall(m) /\ m.message_id \in processedMessages)
            => /\ lastCall'.error = NoError
               /\ DuplicateLogged(m)'
               /\ processedMessages' = processedMessages
               /\ buyerPending' = buyerPending
               /\ providerCalls' = providerCalls
               /\ payments' = payments
               /\ paidFor' = paidFor]_vars

\* the quote whose payment failed was handed over again and ignored: one
\* provider call in all, none outstanding, nothing paid
C37_Witness ==
  \E m \in ExampleMessages :
    /\ m.type = "quote"
    /\ lastCall = [op |-> "handleMessage", message_id |-> m.message_id, error |-> NoError]
    /\ PaymentFailedLogged
    /\ DuplicateLogged(m)
    /\ m.message_id \in processedMessages
    /\ providerCalls = SetToBag({[buyer |-> buyerAgent, message_id |-> m.message_id]})
    /\ buyerPending = EmptyBag
    /\ DOMAIN paidFor = {}
    /\ DOMAIN payments = {}

\* C38 as stated: whatever initializeAgents and reset calls were made, at most
\* one polling timer is running, and right after a reset none is.
C38_AtMostOneTimer ==
  [][/\ Cardinality(timers') <= 1
     /\ reset => timers' = {}]_vars

Sent(type) == {m \in wire : m.type = type}

\* C39: with every message delivered once, a service_request is sent only
\* by a triggerPurchase call, one per call; there are never more quotes sent
\* than service_requests, never more makePayment calls than quotes, never
\* more provider payments than makePayment calls, and never more payments
\* stored or payment_notifications sent than provider payments.
C39_FlowCountsBounded ==
  [][/\ Sent("service_request")' # Sent("service_request")
          => /\ \E q \in Quantities : triggerPurchase(q)
             /\ Cardinality(Sent("service_request")')
                  = Cardinality(Sent("service_request")) + 1
     /\ Cardinality(Sent("quote")') <= Cardinality(Sent("service_request")')
     /\ BagCardinality(providerCalls') <= Cardinality(Sent("quote")')
     /\ Cardinality(DOMAIN paidFor') <= BagCardinality(providerCalls')
     /\ Cardinality(DOMAIN payments') <= Cardinality(DOMAIN paidFor')
     /\ Cardinality(Sent("payment_notification")') <= Cardinality(DOMAIN paidFor')]_vars

\* one purchase has gone all the way to a stored payment: one request, one
\* quote, one provider call, one payment
C39_Witness ==
  /\ Cardinality(Sent("service_request")) = 1
  /\ Cardinality(Sent("quote")) = 1
  /\ BagCardinality(providerCalls) = 1
  /\ Cardinality(DOMAIN paidFor) = 1
  /\ Cardinality(DOMAIN payments) = 1
  /\ Cardinality(Sent("payment_notification")) = 1

====
